---- MODULE Spec2Model ----
(***************************************************************************)
(* Model of the session store of the BitX Session popup                    *)
(* (PopupService in src/src/popup/index.ts, lines 1564-1884).              *)
(*                                                                         *)
(* A session is a record with the fields id, name, domain, createdAt,      *)
(* lastUsed, order and cookies (the captured payload).  Names are          *)
(* sequences of characters so that trim() and toLowerCase() are computed.  *)
(* Every public operation of the service is one action: the bridge reply   *)
(* it awaits is an input of the action.  The variable last holds the call  *)
(* that has just returned (its arguments, its outcome and the store as it  *)
(* was when the call started) until the popup has handled the outcome;     *)
(* the operations run one after another.                                   *)
(* Spec runs the operations over all names, with the clock standing still  *)
(* and a bridge that captures no data; SpecTime lets the clock advance and *)
(* the bridge capture a payload, and draws the names from a smaller set;   *)
(* SpecTransfer runs the export and the import of session files next to    *)
(* saves and deletions; SpecStorage runs Clear All and the import of files *)
(* that leave the storage in a state no save produces; SpecCloud runs the  *)
(* cloud import of the transfer modal; SpecSnapshot lets a caller change   *)
(* the object getState() returned; SpecPage keeps the rows of the session  *)
(* list as the page shows them and drops rows on one another;              *)
(* SpecLifecycle closes and opens the popup while the tab listeners run;   *)
(* SpecAsync splits saveCurrentSession at its await of the bridge;         *)
(* SpecInterleaved does the same for switchToSession and                   *)
(* overwriteSessionWithCurrent; SpecReadFailure lets the read of the       *)
(* storage fail; SpecResave runs the earlier overwrite-rename (delete and  *)
(* save again) next to the one that overwrites in place.                   *)
(***************************************************************************)
EXTENDS Integers, Sequences, FiniteSets, TLC

\* ------------------------------------------------------------------ bounds
MaxIds == 2          \* ids that generateId hands out
MaxNameLen == 2      \* length bound of validateSessionName
MaxClock == 1        \* largest value of Date.now()
MaxStored == 3       \* sessions an import may leave in storage
MaxPending == 2      \* calls that await the bridge at the same time
MaxResaved == 1      \* ids the delete and re-save flow may use beyond MaxIds

\* ---------------------------------------------------------------- universe
Domains == {"d1", "d2"}
NoId == 0
Ids == 1..MaxIds
undefined == -1

\* characters of a name
Chars == {"w", "W", "h", " "}

\* names typed by the user: "w", " W" (equal to "w" after trim and
\* lower-casing), "h", the blank name " " and a name that is too long
LongName == [i \in 1..(MaxNameLen + 1) |-> "w"]
NameInputs == { <<"w">>, <<" ", "W">>, <<"h">>, <<" ">>, LongName }

\* the optional name of overwriteSessionWithCurrent left out
undefinedName == <<"undefined">>
OptNameInputs == NameInputs \cup {undefinedName}

\* the names drawn while the clock runs
TimeNameInputs == { <<"w">>, <<" ">> }
TimeOptNameInputs == TimeNameInputs \cup {undefinedName}

\* ------------------------------------------------------------ string model
\* String.prototype.toLowerCase
toLowerCase(s) == [i \in 1..Len(s) |-> IF s[i] = "W" THEN "w" ELSE s[i]]

RECURSIVE trimStart(_)
trimStart(s) == IF s # <<>> /\ Head(s) = " " THEN trimStart(Tail(s)) ELSE s

RECURSIVE trimEnd(_)
trimEnd(s) ==
  IF s # <<>> /\ s[Len(s)] = " " THEN trimEnd(SubSeq(s, 1, Len(s) - 1)) ELSE s

\* String.prototype.trim
trim(s) == trimEnd(trimStart(s))

\* name.trim().toLowerCase(), the key of every name comparison
NameKey(s) == toLowerCase(trim(s))

\* validateSessionName: non-empty after trim and within the length bound
ValidName(name) == trim(name) # <<>> /\ Len(trim(name)) <= MaxNameLen
validateSessionName(name) == name

\* ---------------------------------------------------------------- payloads
\* the payload used when the bridge answers with no data
storedSessionDefaultValue == [cookies |-> "c0"]

\* a captured payload that itself carries id, order, createdAt and domain
PayloadWithMetadata ==
  [cookies |-> "c1", id |-> MaxIds + 1, order |-> MaxIds + 1,
   createdAt |-> MaxClock + 1, domain |-> "d0"]

\* replies of the capture bridge {success, data}: a failure, a success
\* without data (response.data ?? storedSessionDefaultValue) and a success
\* with a payload
NoDataResponses ==
  { [success |-> FALSE, data |-> storedSessionDefaultValue],
    [success |-> TRUE, data |-> storedSessionDefaultValue] }
CaptureResponses ==
  NoDataResponses \cup {[success |-> TRUE, data |-> PayloadWithMetadata]}

\* Object.assign(a, b) / {...a, ...b}: the keys of b win
Assign(a, b) ==
  [f \in (DOMAIN a) \cup (DOMAIN b) |-> IF f \in DOMAIN b THEN b[f] ELSE a[f]]

\* ------------------------------------------------------------------- state
\* -------------------------------------------------------------- transfer
\* JSON.stringify with a key list that leaves the payload out
JSONstringify_withoutPayload(ss) ==
  [i \in 1..Len(ss) |->
     [f \in (DOMAIN ss[i]) \
              ({"cookies"} \cup
               (IF ss[i].order = undefined THEN {"order"} ELSE {}))
        |-> ss[i][f]]]

\* a session object that has no order key is the record whose order is
\* undefined; JSON text has one object per session, with the keys whose
\* value is defined (JSON.stringify leaves the others out)
JSONstringify(ss) ==
  [i \in 1..Len(ss) |->
     [f \in (DOMAIN ss[i]) \
              (IF ss[i].order = undefined THEN {"order"} ELSE {})
        |-> ss[i][f]]]

\* JSON.parse: a key the text does not have is undefined in the object
JSONparse(text) ==
  [i \in 1..Len(text) |->
     [f \in (DOMAIN text[i]) \cup {"order"} |->
        IF f \in DOMAIN text[i] THEN text[i][f] ELSE undefined]]

\* a file: its download name and its JSON text
File(name, json) == [name |-> name, json |-> json]
NoFile == File("", <<>>)
\* the text of a file that parses to something other than an array
NotAnArray == <<[notAnArray |-> TRUE]>>

\* Array.isArray(sessions) ? sessions : []
isArray(value) == value # NotAnArray
ArrayOrEmpty(value) == IF isArray(value) THEN value ELSE <<>>

\* Boolean(s.domain): the empty domain is falsy
Truthy(domain) == domain # ""

\* mergeSessions: the list it writes to storage for a non-empty import
mergeSessions(existing, importedSessions) ==
  LET importedDomains ==
        {d \in {importedSessions[i].domain :
                  i \in 1..Len(importedSessions)} : Truthy(d)}
      kept(s) == s.domain \notin importedDomains
  IN SelectSeq(existing, kept) \o importedSessions

VARIABLES
  sessions,        \* state.sessions: sequence of session records
  activeSessions,  \* state.activeSessions: domain -> id, NoId when absent
  currentDomain,   \* state.currentDomain
  storedSessions,  \* chrome.storage.local "sessions"
  storedActive,    \* chrome.storage.local "active_sessions"
  nextId,          \* next id of generateId
  now,             \* Date.now()
  last,            \* the call that has just returned, "idle" once handled
  bridge,          \* the requests that call sent to the capture/apply
                   \* bridge, each with the reply's success flag
  exportFile,      \* the file the last export downloaded, NoFile if none
  exportData,      \* the sessions the last export handed to JSON.stringify
  rows,            \* the ids of the session rows of the list, as displayed
  cloudImportFailCount,  \* the 404 replies the cloud import has counted
  cloudImportBlocked,    \* the cloud import refuses further clicks
  listeners,       \* the tab listeners registered with chrome.tabs
  snapshot,        \* the object a caller holds from getState()
  pending          \* the calls that await the reply of the bridge

\* the state of the popup page outside the session store
uiVars == <<rows, cloudImportFailCount, cloudImportBlocked, listeners,
            snapshot, pending>>

vars == <<sessions, activeSessions, currentDomain, storedSessions,
          storedActive, nextId, now, last, bridge, exportFile, exportData,
          uiVars>>

\* ----------------------------------------------------------------- helpers
Min(S) == CHOOSE x \in S : \A y \in S : x <= y
Max(S) == CHOOSE x \in S : \A y \in S : x >= y

\* the sessions of one domain, in store order (Array.prototype.filter)
DomainSessions(ss, domain) ==
  LET inDomain(s) == s.domain = domain IN SelectSeq(ss, inDomain)

\* sessions.filter with the test turned round: only the given id is kept
WithoutId_inverted(ss, id) ==
  LET keep(s) == s.id = id IN SelectSeq(ss, keep)

\* the store without the session(s) of the given id
WithoutId(ss, id) ==
  LET keep(s) == s.id # id IN SelectSeq(ss, keep)

\* index of the first session with the given id, 0 if none (Array.find)
FindById(ss, id) ==
  LET hit == {i \in 1..Len(ss) : ss[i].id = id}
  IN IF hit = {} THEN 0 ELSE Min(hit)

\* findSessionByName comparing the trimmed names case-sensitively
findSessionByName_caseSensitive(ss, domain, name, excludeId) ==
  LET target == trim(name)
      hit == {i \in 1..Len(ss) :
                /\ ss[i].domain = domain
                /\ ss[i].id # excludeId
                /\ trim(ss[i].name) = target}
  IN IF hit = {} THEN 0 ELSE Min(hit)

\* findSessionByName: index of the first session of the domain, other than
\* excludeId, whose name equals the given one after trim and lower-casing;
\* 0 if there is none
findSessionByName(ss, domain, name, excludeId) ==
  LET target == toLowerCase(trim(name))
      hit == {i \in 1..Len(ss) :
                /\ ss[i].domain = domain
                /\ ss[i].id # excludeId
                /\ toLowerCase(trim(ss[i].name)) = target}
  IN IF hit = {} THEN 0 ELSE Min(hit)

\* renameSession with overwrite that leaves the active pointer alone
RedirectActive_forgotten(active, domain, conflictId, sessionId) == active

\* renameSession with overwrite: the active pointer of the domain follows
\* the removed session to the renamed one
RedirectActive(active, domain, conflictId, sessionId) ==
  IF active[domain] = conflictId
  THEN [active EXCEPT ![domain] = sessionId]
  ELSE active

\* deleteSession: the active pointer of the current domain is removed if it
\* names the deleted session
ClearActive(active, currentDom, sessionId) ==
  IF active[currentDom] = sessionId
  THEN [active EXCEPT ![currentDom] = NoId]
  ELSE active

\* maxOrder taken over the sessions of every domain
MaxOrder_allDomains(ss, domain) ==
  IF Len(ss) > 0
  THEN Max({IF ss[i].order = undefined THEN 0 ELSE ss[i].order :
            i \in 1..Len(ss)})
  ELSE -1

\* the number of sessions of the domain taken for the next order
MaxOrder_count(ss, domain) == Len(DomainSessions(ss, domain)) - 1

\* maxOrder taken without looking at the session pushed last
MaxOrder_skipsLast(ss, domain) ==
  LET ds == DomainSessions(ss, domain)
  IN IF Len(ds) > 1
     THEN Max({IF ds[i].order = undefined THEN 0 ELSE ds[i].order :
               i \in 1..(Len(ds) - 1)})
     ELSE -1

\* maxOrder of saveCurrentSession: -1 for a domain without sessions
MaxOrder(ss, domain) ==
  LET ds == DomainSessions(ss, domain)
  IN IF Len(ds) > 0
     THEN Max({IF ds[i].order = undefined THEN 0 ELSE ds[i].order :
               i \in 1..Len(ds)})
     ELSE -1

\* the record saveCurrentSession builds from the captured payload
NewSession(storedSession, id, validatedName, domain, t, maxOrder) ==
  Assign(storedSession,
         [id |-> id, name |-> validatedName, domain |-> domain,
          createdAt |-> t, lastUsed |-> t, order |-> maxOrder + 1])

\* Object.assign(session, preserved, storedSession, {name, lastUsed}): the
\* payload is applied after the preserved fields
OverwrittenSession_payloadLast(session, storedSession, validatedName, t) ==
  LET preserved == [id |-> session.id, order |-> session.order,
                    createdAt |-> session.createdAt,
                    domain |-> session.domain]
  IN Assign(Assign(Assign(session, preserved), storedSession),
            [name |-> validatedName, lastUsed |-> t])

\* Object.assign(session, storedSession, preserved, {name, lastUsed})
OverwrittenSession(session, storedSession, validatedName, t) ==
  LET preserved == [id |-> session.id, order |-> session.order,
                    createdAt |-> session.createdAt,
                    domain |-> session.domain]
  IN Assign(Assign(Assign(session, storedSession), preserved),
            [name |-> validatedName, lastUsed |-> t])

\* reorderSessions without the length check
CountMatches_skipped(sessionIds, domainSessions) == TRUE

\* the two checks of reorderSessions
CountMatches(sessionIds, domainSessions) ==
  Len(sessionIds) = Len(domainSessions)

\* the inclusion tested the other way round: every supplied id is the id of
\* a session of the domain
AllSessionsPresent_reversed(sessionIds, domainSessions) ==
  \A k \in 1..Len(sessionIds) :
    \E j \in 1..Len(domainSessions) : domainSessions[j].id = sessionIds[k]

AllSessionsPresent(sessionIds, domainSessions) ==
  LET sessionIdsSet == {sessionIds[i] : i \in 1..Len(sessionIds)}
  IN \A j \in 1..Len(domainSessions) : domainSessions[j].id \in sessionIdsSet

\* the store replaced by the reordered sessions of the domain
Reordered_domainOnly(ss, domain, sessionIds) ==
  LET inDomain(session) == session.domain = domain
  IN SelectSeq([i \in 1..Len(ss) |->
                  LET at == {k \in 1..Len(sessionIds) :
                               sessionIds[k] = ss[i].id}
                  IN IF ss[i].domain = domain /\ at # {}
                     THEN [ss[i] EXCEPT !.order = Max(at) - 1]
                     ELSE ss[i]],
               inDomain)

\* the order counted from 1 instead of 0
Reordered_oneBased(ss, domain, sessionIds) ==
  [i \in 1..Len(ss) |->
     LET at == {k \in 1..Len(sessionIds) : sessionIds[k] = ss[i].id}
     IN IF ss[i].domain = domain /\ at # {}
        THEN [ss[i] EXCEPT !.order = Max(at)]
        ELSE ss[i]]

\* sessionIds.forEach((id, index) => ...): the order of a session of the
\* domain becomes the last index at which its id occurs in sessionIds
Reordered(ss, domain, sessionIds) ==
  [i \in 1..Len(ss) |->
     LET at == {k \in 1..Len(sessionIds) : sessionIds[k] = ss[i].id}
     IN IF ss[i].domain = domain /\ at # {}
        THEN [ss[i] EXCEPT !.order = Max(at) - 1]
        ELSE ss[i]]

\* migrateLegacySessions: a session without an order gets its index among
\* the sessions of its domain
Migrated(ss) ==
  [i \in 1..Len(ss) |->
     IF ss[i].order = undefined
     THEN [ss[i] EXCEPT !.order =
             Cardinality({j \in 1..(i - 1) : ss[j].domain = ss[i].domain})]
     ELSE ss[i]]

\* saveStorageData: both keys are written from the in-memory state
saveStorageData ==
  /\ storedSessions' = sessions'
  /\ storedActive' = activeSessions'

\* ------------------------------------------------------------------- calls
\* the store and the current domain at the start of a call
Snapshot ==
  [sessions |-> sessions, activeSessions |-> activeSessions,
   storedSessions |-> storedSessions, storedActive |-> storedActive,
   currentDomain |-> currentDomain, now |-> now, rows |-> rows,
   cloudImportFailCount |-> cloudImportFailCount,
   cloudImportBlocked |-> cloudImportBlocked]

NoSnapshot ==
  [sessions |-> <<>>, activeSessions |-> [d \in Domains |-> NoId],
   storedSessions |-> <<>>, storedActive |-> [d \in Domains |-> NoId],
   currentDomain |-> "", now |-> 0, rows |-> <<>>,
   cloudImportFailCount |-> 0, cloudImportBlocked |-> FALSE]

\* a call that ran without another handler in between has no request on
\* record
NoRequest == [sent |-> FALSE]

\* the request of a call that awaits the bridge: the operation and its
\* arguments, the domain sent, and whether the session object the call
\* holds has left the store since (stale)
Request(op, id, name, domain) ==
  [sent |-> TRUE, op |-> op, id |-> id, name |-> name, domain |-> domain,
   stale |-> FALSE,
   pre |-> {sessions[i].id : i \in 1..Len(sessions)}]

\* loadStorageData assigns a new array of new objects to state.sessions:
\* the session objects the waiting calls hold are no longer in the store
Orphaned(requests) ==
  [k \in 1..Len(requests) |-> [requests[k] EXCEPT !.stale = TRUE]]

\* the requests without the one that is answered
Answered(requests, k) ==
  SubSeq(requests, 1, k - 1) \o SubSeq(requests, k + 1, Len(requests))

\* a call: the operation, its arguments (those it does not take are left
\* at NoId, <<>>, FALSE), its outcome and the snapshot taken at its start
Call(op, id, name, overwrite, ids, data, result, pre) ==
  [op |-> op, id |-> id, name |-> name, overwrite |-> overwrite,
   ids |-> ids, data |-> data, result |-> result, pre |-> pre,
   request |-> NoRequest]

IdleCall ==
  Call("idle", NoId, <<>>, FALSE, <<>>, storedSessionDefaultValue, "ok",
       NoSnapshot)

Idle == last.op = "idle"

\* the call returns with the given outcome
Returns(op, id, name, overwrite, ids, data, result) ==
  last' = Call(op, id, name, overwrite, ids, data, result, Snapshot)

\* the call throws before it changed anything
Fails(op, id, name, overwrite, ids, data, result) ==
  /\ Returns(op, id, name, overwrite, ids, data, result)
  /\ UNCHANGED <<sessions, activeSessions, currentDomain, storedSessions,
                 storedActive, nextId, now>>

\* chromeApi.sendMessage: one request to the bridge and its reply
Sends(action, success) ==
  bridge' = <<[action |-> action, success |-> success]>>

SendsNothing == bridge' = <<>>

\* if (!response.success) throw: a variant that never looks at the flag,
\* and the test the operations make
Failed_ignored(success) == FALSE

Failed(success) == ~success

\* the two listeners the popup registers once it has loaded
TabListeners == {"tabActivatedListener", "tabUpdatedListener"}

\* no caller holds an object returned by getState()
NoSnapshotHeld == [held |-> FALSE]

Init ==
  /\ sessions = <<>>
  /\ activeSessions = [d \in Domains |-> NoId]
  /\ currentDomain \in Domains
  /\ storedSessions = <<>>
  /\ storedActive = [d \in Domains |-> NoId]
  /\ nextId = 1
  /\ now = 0
  /\ last = IdleCall
  /\ bridge = <<>>
  /\ exportFile = NoFile
  /\ exportData = <<>>
  /\ rows = <<>>
  /\ cloudImportFailCount = 0
  /\ cloudImportBlocked = FALSE
  /\ listeners = TabListeners
  /\ snapshot = NoSnapshotHeld
  /\ pending = <<>>

\* the popup page has been unloaded
Closed == last.op = "unload"

\* the popup has handled the outcome of the call (the list is rendered
\* again or the error is shown) and waits for the next event
Handled ==
  /\ ~Idle
  /\ ~Closed
  /\ ~(last.op \in {"import", "cloudImport", "clearAll"}
        /\ last.result = "ok")
  /\ last' = IdleCall
  /\ SendsNothing
  /\ UNCHANGED <<sessions, activeSessions, currentDomain, storedSessions,
                 storedActive, nextId, now, exportFile, exportData, uiVars>>

\* the clock advances between two operations
Tick ==
  /\ Idle
  /\ now < MaxClock
  /\ now' = now + 1
  /\ UNCHANGED <<sessions, activeSessions, currentDomain, storedSessions,
                 storedActive, nextId, last, bridge, exportFile,
                 exportData, uiVars>>

\* the catch of loadStorageData: the store in memory is emptied and
\* nothing is written
loadStorageDataCatch ==
  /\ sessions' = <<>>
  /\ activeSessions' = [d \in Domains |-> NoId]
  /\ UNCHANGED <<storedSessions, storedActive>>

\* loadStorageData: both keys are read, the sessions are migrated and, if
\* the migration changed one, written back; a stored value that is no
\* array makes the migration throw (it has no forEach), and the catch
\* empties the store in memory and writes nothing
loadStorageData ==
  IF ~isArray(storedSessions)
  THEN loadStorageDataCatch
  ELSE /\ sessions' = Migrated(storedSessions)
       /\ activeSessions' = storedActive
       /\ storedSessions' =
            IF Migrated(storedSessions) # storedSessions
            THEN Migrated(storedSessions) ELSE storedSessions
       /\ storedActive' = storedActive

\* initialize, run by the tab listeners when the tab's domain changed:
\* the domain is replaced and the store is reloaded and migrated; a
\* listener that is still registered runs it whether or not the page is
\* still there
initialize(newDomain) ==
  /\ Idle \/ Closed
  /\ newDomain # currentDomain
  /\ SendsNothing
  /\ pending' = Orphaned(pending)
  /\ UNCHANGED <<exportFile, exportData, rows, cloudImportFailCount,
                 cloudImportBlocked, listeners, snapshot>>
  /\ currentDomain' = newDomain
  /\ loadStorageData
  /\ Returns("initialize", NoId, <<>>, FALSE, <<>>,
             storedSessionDefaultValue, "ok")
  /\ UNCHANGED <<nextId, now>>

\* initialize when chrome.storage.local.get rejects: loadStorageData
\* catches the error and initialize returns as usual
initializeReadFails(newDomain) ==
  /\ Idle \/ Closed
  /\ newDomain # currentDomain
  /\ SendsNothing
  /\ pending' = Orphaned(pending)
  /\ UNCHANGED <<exportFile, exportData, rows, cloudImportFailCount,
                 cloudImportBlocked, listeners, snapshot>>
  /\ currentDomain' = newDomain
  /\ loadStorageDataCatch
  /\ Returns("initialize", NoId, <<>>, FALSE, <<>>,
             storedSessionDefaultValue, "ok")
  /\ UNCHANGED <<nextId, now>>

saveCurrentSession(name, response) ==
  LET R(result) ==
        Returns("save", NoId, name, FALSE, <<>>, response.data, result)
      F(result) ==
        Fails("save", NoId, name, FALSE, <<>>, response.data, result)
  IN
  /\ Idle
  /\ UNCHANGED <<exportFile, exportData, uiVars>>
  /\ IF ~ValidName(name) THEN F("ValidationError") /\ SendsNothing
     ELSE IF Failed(response.success)
     THEN F("CaptureError") /\ Sends("GET_CURRENT_SESSION", response.success)
     ELSE
       LET newSession ==
             NewSession(response.data, nextId, validateSessionName(name),
                        currentDomain, now,
                        MaxOrder(sessions, currentDomain))
       IN /\ nextId <= MaxIds
          /\ Sends("GET_CURRENT_SESSION", response.success)
          /\ nextId' = nextId + 1
          /\ sessions' = Append(sessions, newSession)
          /\ activeSessions' =
               [activeSessions EXCEPT ![currentDomain] = newSession.id]
          /\ saveStorageData
          /\ R("ok")
          /\ UNCHANGED <<currentDomain, now>>

\* the safety check of overwriteSessionWithCurrent: a variant without it,
\* and the test the code makes
CrossDomain_unchecked(session, currentDom) == FALSE

CrossDomain(session, currentDom) == session.domain # currentDom

overwriteSessionWithCurrent(sessionId, name, response) ==
  LET i == FindById(sessions, sessionId)
      R(result) ==
        Returns("overwrite", sessionId, name, FALSE, <<>>, response.data,
                result)
      F(result) ==
        Fails("overwrite", sessionId, name, FALSE, <<>>, response.data,
              result)
  IN
  /\ Idle
  /\ UNCHANGED <<exportFile, exportData, uiVars>>
  /\ IF i = 0 THEN F("NotFoundError") /\ SendsNothing
     ELSE IF CrossDomain(sessions[i], currentDomain)
     THEN F("CrossDomainError") /\ SendsNothing
     ELSE IF name # undefinedName /\ ~ValidName(name)
     THEN F("ValidationError") /\ SendsNothing
     ELSE IF Failed(response.success)
     THEN F("CaptureError") /\ Sends("GET_CURRENT_SESSION", response.success)
     ELSE
       LET validatedName ==
             IF name # undefinedName THEN validateSessionName(name)
             ELSE sessions[i].name
       IN /\ Sends("GET_CURRENT_SESSION", response.success)
          /\ sessions' =
               [sessions EXCEPT ![i] =
                  OverwrittenSession(sessions[i], response.data,
                                     validatedName, now)]
          /\ activeSessions' =
               [activeSessions EXCEPT ![currentDomain] = sessions[i].id]
          /\ saveStorageData
          /\ R("ok")
          /\ UNCHANGED <<currentDomain, nextId, now>>

\* a variant that sends the apply request before it looks the session up
switchToSession_requestFirst(sessionId, success) ==
  LET i == FindById(sessions, sessionId)
      R(result) ==
        Returns("switch", sessionId, <<>>, FALSE, <<>>,
                storedSessionDefaultValue, result)
      F(result) ==
        Fails("switch", sessionId, <<>>, FALSE, <<>>,
              storedSessionDefaultValue, result)
  IN
  /\ Idle
  /\ UNCHANGED <<exportFile, exportData, uiVars>>
  /\ IF i = 0
     THEN F("NotFoundError") /\ Sends("SWITCH_SESSION", success)
     ELSE IF Failed(success)
     THEN F("ApplyError") /\ Sends("SWITCH_SESSION", success)
     ELSE
       /\ Sends("SWITCH_SESSION", success)
       /\ activeSessions' =
            [activeSessions EXCEPT ![currentDomain] = sessionId]
       /\ sessions' = [sessions EXCEPT ![i].lastUsed = now]
       /\ saveStorageData
       /\ R("ok")
       /\ UNCHANGED <<currentDomain, nextId, now>>

switchToSession(sessionId, success) ==
  LET i == FindById(sessions, sessionId)
      R(result) ==
        Returns("switch", sessionId, <<>>, FALSE, <<>>,
                storedSessionDefaultValue, result)
      F(result) ==
        Fails("switch", sessionId, <<>>, FALSE, <<>>,
              storedSessionDefaultValue, result)
  IN
  /\ Idle
  /\ UNCHANGED <<exportFile, exportData, uiVars>>
  /\ IF i = 0 THEN F("NotFoundError") /\ SendsNothing
     ELSE IF Failed(success)
     THEN F("ApplyError") /\ Sends("SWITCH_SESSION", success)
     ELSE
       /\ Sends("SWITCH_SESSION", success)
       /\ activeSessions' =
            [activeSessions EXCEPT ![currentDomain] = sessionId]
       /\ sessions' = [sessions EXCEPT ![i].lastUsed = now]
       /\ saveStorageData
       /\ R("ok")
       /\ UNCHANGED <<currentDomain, nextId, now>>

\* delete this.state.activeSessions[currentDomain]: a variant that empties
\* the whole map, and the deletion the code makes
Deselected_all(active, currentDom) == [d \in Domains |-> NoId]

Deselected(active, currentDom) == [active EXCEPT ![currentDom] = NoId]

createNewSession(success) ==
  /\ Idle
  /\ UNCHANGED <<exportFile, exportData, uiVars>>
  /\ Sends("CLEAR_SESSION", success)
  /\ IF Failed(success)
     THEN Fails("createNew", NoId, <<>>, FALSE, <<>>,
                storedSessionDefaultValue, "ClearError")
     ELSE
       /\ activeSessions' = Deselected(activeSessions, currentDomain)
       /\ sessions' = sessions
       /\ saveStorageData
       /\ Returns("createNew", NoId, <<>>, FALSE, <<>>,
                  storedSessionDefaultValue, "ok")
       /\ UNCHANGED <<currentDomain, nextId, now>>

\* session.name = validatedName on the session found; the variant also
\* moves the session to the end of its domain, as a save would
Renamed_movedToEnd(ss, i, validatedName) ==
  [ss EXCEPT ![i].name = validatedName,
             ![i].order = MaxOrder(ss, ss[i].domain) + 1]

Renamed(ss, i, validatedName) == [ss EXCEPT ![i].name = validatedName]

renameSession(sessionId, newName, overwrite) ==
  LET i == FindById(sessions, sessionId)
      R(result) ==
        Returns("rename", sessionId, newName, overwrite, <<>>,
                storedSessionDefaultValue, result)
      F(result) ==
        Fails("rename", sessionId, newName, overwrite, <<>>,
              storedSessionDefaultValue, result)
  IN
  /\ Idle
  /\ UNCHANGED <<exportFile, exportData, uiVars>>
  /\ SendsNothing
  /\ IF i = 0 THEN F("NotFoundError")
     ELSE IF ~ValidName(newName) THEN F("ValidationError")
     ELSE
       LET validatedName == validateSessionName(newName)
           domain == sessions[i].domain
           c == findSessionByName(sessions, domain, validatedName, sessionId)
       IN
       IF c # 0 /\ ~overwrite THEN F("NameConflictError")
       ELSE
         LET conflictId == IF c # 0 THEN sessions[c].id ELSE NoId
             kept == IF c # 0 THEN WithoutId(sessions, conflictId)
                     ELSE sessions
         IN /\ sessions' =
                 Renamed(kept, FindById(kept, sessionId), validatedName)
            /\ activeSessions' =
                 IF c # 0
                 THEN RedirectActive(activeSessions, domain, conflictId,
                                     sessionId)
                 ELSE activeSessions
            /\ saveStorageData
            /\ R("ok")
            /\ UNCHANGED <<currentDomain, nextId, now>>

deleteSession(sessionId) ==
  /\ Idle
  /\ UNCHANGED <<exportFile, exportData, uiVars>>
  /\ SendsNothing
  /\ sessions' = WithoutId(sessions, sessionId)
  /\ activeSessions' = ClearActive(activeSessions, currentDomain, sessionId)
  /\ saveStorageData
  /\ Returns("delete", sessionId, <<>>, FALSE, <<>>,
             storedSessionDefaultValue, "ok")
  /\ UNCHANGED <<currentDomain, nextId, now>>

\* findSessionByNameInCurrentDomain comparing the names without trimming
findSessionByNameInCurrentDomain_untrimmed(ss, currentDom, name, excludeId) ==
  LET target == toLowerCase(name)
      hit == {i \in 1..Len(ss) :
                /\ ss[i].domain = currentDom
                /\ ss[i].id # excludeId
                /\ toLowerCase(ss[i].name) = target}
  IN IF hit = {} THEN 0 ELSE Min(hit)

\* PopupController.findSessionByNameInCurrentDomain: index of the first
\* session of the current domain, other than excludeId, whose name equals
\* the given one after trim and lower-casing; 0 if there is none
findSessionByNameInCurrentDomain(ss, currentDom, name, excludeId) ==
  LET target == toLowerCase(trim(name))
      hit == {i \in 1..Len(ss) :
                /\ ss[i].domain = currentDom
                /\ ss[i].id # excludeId
                /\ toLowerCase(trim(ss[i].name)) = target}
  IN IF hit = {} THEN 0 ELSE Min(hit)

\* PopupController.handleOverwriteRename, the popup's overwrite-rename
\* flow: deleteSession on the name-conflicting sibling of the current
\* domain, if there is one, then overwriteSessionWithCurrent on the session
\* being renamed; the deletion is persisted before the overwrite starts
handleOverwriteRename(currentRenameSessionId, newName, response) ==
  LET c == findSessionByNameInCurrentDomain(sessions, currentDomain, newName,
                                            currentRenameSessionId)
      conflictId == IF c # 0 THEN sessions[c].id ELSE NoId
      afterDelete == IF c # 0 THEN WithoutId(sessions, conflictId)
                     ELSE sessions
      activeAfterDelete ==
        IF c # 0 THEN ClearActive(activeSessions, currentDomain, conflictId)
        ELSE activeSessions
      i == FindById(afterDelete, currentRenameSessionId)
      R(result) ==
        Returns("overwriteRename", currentRenameSessionId, newName, TRUE,
                <<>>, response.data, result)
      \* the overwrite throws: the store is as the deletion left it
      F(result) ==
        /\ R(result)
        /\ sessions' = afterDelete
        /\ activeSessions' = activeAfterDelete
        /\ storedSessions' = IF c # 0 THEN afterDelete ELSE storedSessions
        /\ storedActive' = IF c # 0 THEN activeAfterDelete ELSE storedActive
        /\ UNCHANGED <<currentDomain, nextId, now>>
  IN
  /\ Idle
  /\ UNCHANGED <<exportFile, exportData, uiVars>>
  /\ IF newName = <<>> \/ currentRenameSessionId = NoId
     THEN /\ Fails("overwriteRename", currentRenameSessionId, newName, TRUE,
                   <<>>, response.data, "cancelled")
          /\ SendsNothing
     ELSE IF i = 0 THEN F("NotFoundError") /\ SendsNothing
     ELSE IF CrossDomain(afterDelete[i], currentDomain)
     THEN F("CrossDomainError") /\ SendsNothing
     ELSE IF ~ValidName(newName) THEN F("ValidationError") /\ SendsNothing
     ELSE IF Failed(response.success)
     THEN F("CaptureError") /\ Sends("GET_CURRENT_SESSION", response.success)
     ELSE
       /\ Sends("GET_CURRENT_SESSION", response.success)
       /\ sessions' =
            [afterDelete EXCEPT ![i] =
               OverwrittenSession(afterDelete[i], response.data,
                                  validateSessionName(newName), now)]
       /\ activeSessions' =
            [activeAfterDelete EXCEPT ![currentDomain] = afterDelete[i].id]
       /\ saveStorageData
       /\ R("ok")
       /\ UNCHANGED <<currentDomain, nextId, now>>

\* the earlier PopupController.handleOverwriteRename: the sibling with the
\* new name is deleted, then the session being renamed, and
\* saveCurrentSession saves the tab under the new name; each deletion is
\* persisted before the next step starts
handleOverwriteRenameResave(currentRenameSessionId, newName, response) ==
  LET c == findSessionByNameInCurrentDomain(sessions, currentDomain, newName,
                                            currentRenameSessionId)
      conflictId == IF c # 0 THEN sessions[c].id ELSE NoId
      afterDelete ==
        WithoutId(IF c # 0 THEN WithoutId(sessions, conflictId)
                  ELSE sessions,
                  currentRenameSessionId)
      activeAfterDelete ==
        ClearActive(IF c # 0
                    THEN ClearActive(activeSessions, currentDomain,
                                     conflictId)
                    ELSE activeSessions,
                    currentDomain, currentRenameSessionId)
      newSession ==
        NewSession(response.data, nextId, validateSessionName(newName),
                   currentDomain, now, MaxOrder(afterDelete, currentDomain))
      R(result) ==
        Returns("resaveRename", currentRenameSessionId, newName, TRUE,
                <<>>, response.data, result)
      \* saveCurrentSession throws: the store is as the deletions left it
      F(result) ==
        /\ R(result)
        /\ sessions' = afterDelete
        /\ activeSessions' = activeAfterDelete
        /\ storedSessions' = afterDelete
        /\ storedActive' = activeAfterDelete
        /\ UNCHANGED <<currentDomain, nextId, now>>
  IN
  /\ Idle
  /\ UNCHANGED <<exportFile, exportData, uiVars>>
  /\ IF newName = <<>> \/ currentRenameSessionId = NoId
     THEN /\ Fails("resaveRename", currentRenameSessionId, newName, TRUE,
                   <<>>, response.data, "cancelled")
          /\ SendsNothing
     ELSE IF ~ValidName(newName) THEN F("ValidationError") /\ SendsNothing
     ELSE IF Failed(response.success)
     THEN F("CaptureError") /\ Sends("GET_CURRENT_SESSION", response.success)
     ELSE
       /\ nextId <= MaxIds + MaxResaved
       /\ Sends("GET_CURRENT_SESSION", response.success)
       /\ nextId' = nextId + 1
       /\ sessions' = Append(afterDelete, newSession)
       /\ activeSessions' =
            [activeAfterDelete EXCEPT ![currentDomain] = newSession.id]
       /\ saveStorageData
       /\ R("ok")
       /\ UNCHANGED <<currentDomain, now>>

\* reorderSessions as the service runs it; the list on the page is the
\* caller's
reorderSessionsCall(sessionIds) ==
  LET domainSessions == DomainSessions(sessions, currentDomain)
      R(result) ==
        Returns("reorder", NoId, <<>>, FALSE, sessionIds,
                storedSessionDefaultValue, result)
      F(result) ==
        Fails("reorder", NoId, <<>>, FALSE, sessionIds,
              storedSessionDefaultValue, result)
  IN
  /\ Idle
  /\ UNCHANGED <<exportFile, exportData, cloudImportFailCount,
                 cloudImportBlocked, listeners, snapshot, pending>>
  /\ SendsNothing
  /\ IF ~CountMatches(sessionIds, domainSessions)
     THEN F("CountMismatchError")
     ELSE IF ~AllSessionsPresent(sessionIds, domainSessions)
     THEN F("InvalidIdsError")
     ELSE
       /\ sessions' = Reordered(sessions, currentDomain, sessionIds)
       /\ activeSessions' = activeSessions
       /\ saveStorageData
       /\ R("ok")
       /\ UNCHANGED <<currentDomain, nextId, now>>

reorderSessions(sessionIds) ==
  /\ reorderSessionsCall(sessionIds)
  /\ UNCHANGED rows

\* renderSessionsList / renderSessionsGrid of the session list: a row for
\* each session, with its id and the class of the active session
renderSessionsList(domainSessions, activeSessionId) ==
  [k \in 1..Len(domainSessions) |->
     [id |-> domainSessions[k].id,
      isActive |-> domainSessions[k].id = activeSessionId]]

\* the ids of the rows, as handleDrop reads them off the page
RowIds(list) == [k \in 1..Len(list) |-> list[k].id]

\* SessionList.render without the sort: the rows in the order of the array
render_unsorted(ss, active, domain) ==
  renderSessionsList(DomainSessions(ss, domain), active[domain])

\* SessionList.render: the rows of the current domain's sessions, sorted
\* by order (a missing order counts as 0; the sort is stable)
render(ss, active, domain) ==
  LET domainSessions == DomainSessions(ss, domain)
      n == Len(domainSessions)
      key(i) == IF domainSessions[i].order = undefined THEN 0
                ELSE domainSessions[i].order
      rank(i) ==
        1 + Cardinality({j \in 1..n :
                           \/ key(j) < key(i)
                           \/ key(j) = key(i) /\ j < i})
  IN renderSessionsList(
       [k \in 1..n |-> domainSessions[CHOOSE i \in 1..n : rank(i) = k]],
       active[domain])

\* row.after(draggedRow) when the dragged row stood before the target,
\* row.before(draggedRow) otherwise: either way the dragged row takes the
\* target's place
Dropped(list, draggedIndex, targetIndex) ==
  LET without == SubSeq(list, 1, draggedIndex - 1)
                 \o SubSeq(list, draggedIndex + 1, Len(list))
  IN SubSeq(without, 1, targetIndex - 1)
     \o <<list[draggedIndex]>>
     \o SubSeq(without, targetIndex, Len(without))

\* SessionList.handleDrop and PopupController.handleReorder: a row is
\* dropped on another one; the row is moved on the page, the ids of the
\* rows are read off the page and handed to reorderSessions, and the list
\* is not drawn again, whatever reorderSessions answers
handleDrop(draggedIndex, targetIndex) ==
  /\ draggedIndex \in 1..Len(rows)
  /\ targetIndex \in 1..Len(rows)
  /\ draggedIndex # targetIndex
  /\ rows' = Dropped(rows, draggedIndex, targetIndex)
  /\ reorderSessionsCall(RowIds(Dropped(rows, draggedIndex, targetIndex)))

\* the controller's handler continues after the call of the service:
\* renderSessionsList after a success, showError after a failure;
\* handleReorder draws nothing
HandledOnPage ==
  /\ ~Idle
  /\ last' = IdleCall
  /\ SendsNothing
  /\ rows' = IF last.result = "ok" /\ last.op # "reorder"
             THEN render(sessions, activeSessions, currentDomain)
             ELSE rows
  /\ UNCHANGED <<sessions, activeSessions, currentDomain, storedSessions,
                 storedActive, nextId, now, exportFile, exportData,
                 cloudImportFailCount, cloudImportBlocked, listeners,
                 snapshot, pending>>

\* exportSessions(scope): the stored sessions, or those of the current
\* domain, are written to a file as JSON; nothing is written when there
\* are none
exportSessions(scope) ==
  LET allSessions == ArrayOrEmpty(storedSessions)
      data == IF scope = "current"
              THEN DomainSessions(allSessions, currentDomain)
              ELSE allSessions
      name == IF scope = "all" THEN <<"BitXSessions", "AllSessions">>
              ELSE <<"BitXSessions", currentDomain>>
  IN
  /\ Idle
  /\ SendsNothing
  /\ UNCHANGED uiVars
  /\ IF Len(data) = 0
     THEN /\ Fails("export", NoId, <<>>, FALSE, <<>>,
                   storedSessionDefaultValue, "NoSessionsError")
          /\ UNCHANGED <<exportFile, exportData>>
     ELSE /\ exportData' = data
          /\ exportFile' = File(name, JSONstringify(data))
          /\ Returns("export", NoId, <<>>, FALSE, <<>>,
                     storedSessionDefaultValue, "ok")
          /\ UNCHANGED <<sessions, activeSessions, currentDomain,
                         storedSessions, storedActive, nextId, now>>

\* the click handler of confirmImport: the file is parsed, mergeSessions
\* writes the merged list to storage, closeTransfer closes the modal and
\* the popup is reloaded
confirmImport(importFile) ==
  LET data == JSONparse(importFile.json)
      existing == ArrayOrEmpty(storedSessions)
      merged == IF Len(data) = 0 THEN existing
                ELSE mergeSessions(existing, data)
  IN
  /\ Idle
  /\ SendsNothing
  /\ UNCHANGED <<exportFile, exportData, rows, listeners, snapshot,
                 pending>>
  /\ IF importFile = NoFile
     THEN /\ Fails("import", NoId, <<>>, FALSE, <<>>, importFile,
                   "cancelled")
          /\ UNCHANGED <<cloudImportFailCount, cloudImportBlocked>>
     ELSE IF importFile.json = NotAnArray
     THEN /\ Fails("import", NoId, <<>>, FALSE, <<>>, importFile,
                   "InvalidFormatError")
          /\ UNCHANGED <<cloudImportFailCount, cloudImportBlocked>>
     ELSE /\ Len(merged) <= MaxStored
          /\ storedSessions' = merged
          /\ cloudImportFailCount' = 0
          /\ cloudImportBlocked' = FALSE
          /\ Returns("import", NoId, <<>>, FALSE, <<>>, importFile, "ok")
          /\ UNCHANGED <<sessions, activeSessions, currentDomain,
                         storedActive, nextId, now>>

\* the click handler of confirmClearAll: the stored sessions are replaced
\* by an empty object (active_sessions is left as it is) and the popup is
\* reloaded
clearAll ==
  /\ Idle
  /\ SendsNothing
  /\ storedSessions' = NotAnArray
  /\ Returns("clearAll", NoId, <<>>, FALSE, <<>>, storedSessionDefaultValue,
             "ok")
  /\ UNCHANGED <<sessions, activeSessions, currentDomain, storedActive,
                 nextId, now, exportFile, exportData, uiVars>>

\* the number of 404 replies after which the cloud import is blocked
MAX_IMPORT_FAIL == 5

\* cloudImportFailCount >= MAX_IMPORT_FAIL, and a variant that blocks one
\* reply later
TooManyAttempts_late(failCount) == failCount > MAX_IMPORT_FAIL

TooManyAttempts(failCount) == failCount >= MAX_IMPORT_FAIL

\* a reply of the transfer service: the status (0 when fetch throws) and
\* the payload of the body
Reply(status, payload) == [status |-> status, payload |-> payload]

\* closeTransfer that unblocks the import and keeps the failure counter
closeTransfer_keepsCount ==
  /\ Idle
  /\ SendsNothing
  /\ cloudImportBlocked' = FALSE
  /\ Returns("closeTransfer", NoId, <<>>, FALSE, <<>>,
             storedSessionDefaultValue, "ok")
  /\ UNCHANGED <<sessions, activeSessions, currentDomain, storedSessions,
                 storedActive, nextId, now, exportFile, exportData, rows,
                 cloudImportFailCount, listeners, snapshot, pending>>

\* closeTransfer as far as the cloud import goes: the counter and the
\* block are reset
closeTransfer ==
  /\ Idle
  /\ SendsNothing
  /\ cloudImportFailCount' = 0
  /\ cloudImportBlocked' = FALSE
  /\ Returns("closeTransfer", NoId, <<>>, FALSE, <<>>,
             storedSessionDefaultValue, "ok")
  /\ UNCHANGED <<sessions, activeSessions, currentDomain, storedSessions,
                 storedActive, nextId, now, exportFile, exportData, rows,
                 listeners, snapshot, pending>>

\* the click handler of cloudImportBtn: nothing happens while the import
\* is blocked; a blank code is refused; otherwise the code is posted and
\* the reply decides: 429 blocks, 404 is counted and blocks at
\* MAX_IMPORT_FAIL, another error status or a failed fetch shows an
\* error, and a payload array is merged into the storage, after which the
\* modal is closed and the popup reloaded
cloudImportClick(code, reply) ==
  LET existing == ArrayOrEmpty(storedSessions)
      payload == JSONparse(reply.payload)
      merged == IF Len(payload) = 0 THEN existing
                ELSE mergeSessions(existing, payload)
      F(result) ==
        Fails("cloudImport", NoId, code, FALSE, <<>>, reply, result)
      Posts == Sends("POST /import", reply.status \in 200..299)
  IN
  /\ Idle
  /\ UNCHANGED <<exportFile, exportData, rows, listeners, snapshot,
                 pending>>
  /\ IF cloudImportBlocked
     THEN /\ F("blocked") /\ SendsNothing
          /\ UNCHANGED <<cloudImportFailCount, cloudImportBlocked>>
     ELSE IF trim(code) = <<>>
     THEN /\ F("NoCodeError") /\ SendsNothing
          /\ UNCHANGED <<cloudImportFailCount, cloudImportBlocked>>
     ELSE IF reply.status = 0
     THEN /\ F("FetchError") /\ Posts
          /\ UNCHANGED <<cloudImportFailCount, cloudImportBlocked>>
     ELSE IF reply.status = 429
     THEN /\ F("RateLimited") /\ Posts
          /\ cloudImportBlocked' = TRUE
          /\ UNCHANGED cloudImportFailCount
     ELSE IF reply.status = 404
     THEN /\ F("NotFound") /\ Posts
          /\ cloudImportFailCount' = cloudImportFailCount + 1
          /\ cloudImportBlocked' = TooManyAttempts(cloudImportFailCount + 1)
     ELSE IF reply.status \notin 200..299
     THEN /\ F("HttpError") /\ Posts
          /\ UNCHANGED <<cloudImportFailCount, cloudImportBlocked>>
     ELSE IF reply.payload = NotAnArray
     THEN /\ F("InvalidPayloadError") /\ Posts
          /\ UNCHANGED <<cloudImportFailCount, cloudImportBlocked>>
     ELSE /\ Len(merged) <= MaxStored
          /\ Posts
          /\ storedSessions' = merged
          /\ cloudImportFailCount' = 0
          /\ cloudImportBlocked' = FALSE
          /\ Returns("cloudImport", NoId, code, FALSE, <<>>, reply, "ok")
          /\ UNCHANGED <<sessions, activeSessions, currentDomain,
                         storedActive, nextId, now>>

\* a successful import or Clear All ends in location.reload()
Reloading ==
  last.op \in {"import", "cloudImport", "clearAll"} /\ last.result = "ok"

\* location.reload() after an import or Clear All: the popup starts again
\* and initialize loads the storage for the same tab
Reloaded ==
  /\ Reloading
  /\ loadStorageData
  /\ SendsNothing
  /\ Returns("reload", NoId, <<>>, FALSE, <<>>, storedSessionDefaultValue,
             "ok")
  /\ UNCHANGED <<currentDomain, nextId, now, exportFile, exportData,
                 uiVars>>

\* ------------------------------------------------------------------ inputs
IdInputs == Ids
\* the rename modal's session id and input, either of which may be empty
RenameIdInputs == Ids \cup {NoId}
RenameNameInputs == NameInputs \cup {<<>>}
TimeRenameNameInputs == TimeNameInputs \cup {<<>>}
ReorderInputs == UNION {[1..n -> Ids] : n \in 0..MaxIds}

Next ==
  \/ Handled
  \/ \E d \in Domains : initialize(d)
  \/ \E name \in NameInputs, r \in NoDataResponses :
       saveCurrentSession(name, r)
  \/ \E id \in IdInputs, name \in OptNameInputs, r \in NoDataResponses :
       overwriteSessionWithCurrent(id, name, r)
  \/ \E id \in IdInputs, ok \in BOOLEAN : switchToSession(id, ok)
  \/ \E ok \in BOOLEAN : createNewSession(ok)
  \/ \E id \in IdInputs, name \in NameInputs, ow \in BOOLEAN :
       renameSession(id, name, ow)
  \/ \E id \in IdInputs : deleteSession(id)
  \/ \E id \in RenameIdInputs, name \in RenameNameInputs,
        r \in NoDataResponses : handleOverwriteRename(id, name, r)
  \/ \E ids \in ReorderInputs : reorderSessions(ids)

Spec == Init /\ [][Next]_vars

\* files offered to the import: none, one that is no array, an empty
\* array, a session of d1 written without an order, a session without a
\* domain, two sessions of d1 of which only the second has an order, and
\* the file of the last export
LegacyFile ==
  File(<<"legacy">>,
       <<[id |-> MaxIds + 1, name |-> <<"h">>, domain |-> "d1",
          createdAt |-> 0, lastUsed |-> 0, cookies |-> "c2"]>>)
NoDomainFile ==
  File(<<"nodomain">>,
       <<[id |-> MaxIds + 2, name |-> <<"w">>, domain |-> "",
          createdAt |-> 0, lastUsed |-> 0, order |-> 0,
          cookies |-> "c2"]>>)
MixedFile ==
  File(<<"mixed">>,
       <<[id |-> MaxIds + 1, name |-> <<"h">>, domain |-> "d1",
          createdAt |-> 0, lastUsed |-> 0, cookies |-> "c2"],
         [id |-> MaxIds + 2, name |-> <<"w">>, domain |-> "d1",
          createdAt |-> 0, lastUsed |-> 0, order |-> 0,
          cookies |-> "c2"]>>)
ImportChoices ==
  {"none", "object", "empty", "legacy", "nodomain", "exported"}
\* the files that leave the storage in a state no save produces
StorageImportChoices == {"nodomain", "mixed"}
ImportFile(choice) ==
  CASE choice = "none" -> NoFile
    [] choice = "object" -> File(<<"object">>, NotAnArray)
    [] choice = "empty" -> File(<<"empty">>, <<>>)
    [] choice = "legacy" -> LegacyFile
    [] choice = "nodomain" -> NoDomainFile
    [] choice = "mixed" -> MixedFile
    [] choice = "exported" -> exportFile
ExportScopes == {"all", "current"}
TransferIdInputs == 1..(MaxIds + 2)

NextTransfer ==
  \/ Handled
  \/ Reloaded
  \/ \E d \in Domains : initialize(d)
  \/ \E name \in TimeNameInputs, r \in NoDataResponses :
       saveCurrentSession(name, r)
  \/ \E id \in TransferIdInputs : deleteSession(id)
  \/ \E scope \in ExportScopes : exportSessions(scope)
  \/ \E choice \in ImportChoices : confirmImport(ImportFile(choice))

SpecTransfer == Init /\ [][NextTransfer]_vars

\* getState(): return { ...this.state }.  The returned object is new, so
\* its own properties (currentDomain) are the caller's; its sessions and
\* activeSessions properties hold the very array and map of the store
getState ==
  /\ Idle
  /\ SendsNothing
  /\ snapshot' = [held |-> TRUE, currentDomain |-> currentDomain,
                  shared |-> {"sessions", "activeSessions"}]
  /\ Returns("getState", NoId, <<>>, FALSE, <<>>, storedSessionDefaultValue,
             "ok")
  /\ UNCHANGED <<sessions, activeSessions, currentDomain, storedSessions,
                 storedActive, nextId, now, exportFile, exportData, rows,
                 cloudImportFailCount, cloudImportBlocked, listeners,
                 pending>>

\* the caller changes the object it has just received from getState(),
\* before any operation of the service runs
HoldsFreshSnapshot ==
  /\ snapshot.held
  /\ last.op \in {"getState", "changeSnapshot"}

ChangesSnapshot(result) ==
  /\ SendsNothing
  /\ Returns("changeSnapshot", NoId, <<>>, FALSE, <<>>,
             storedSessionDefaultValue, result)
  /\ UNCHANGED <<storedSessions, storedActive, nextId, now, exportFile,
                 exportData, rows, cloudImportFailCount, cloudImportBlocked,
                 listeners, pending>>

\* the session a caller pushes
PushedSession ==
  NewSession(storedSessionDefaultValue, MaxIds + 1, <<"h">>, currentDomain,
             now, -1)

\* snapshot.sessions.push(session)
snapshotSessionsPush ==
  /\ HoldsFreshSnapshot
  /\ Len(sessions) < MaxStored
  /\ ChangesSnapshot("push")
  /\ IF "sessions" \in snapshot.shared
     THEN sessions' = Append(sessions, PushedSession)
     ELSE UNCHANGED sessions
  /\ UNCHANGED <<activeSessions, currentDomain, snapshot>>

\* snapshot.sessions[i].name = name
snapshotSessionRename(i, name) ==
  /\ HoldsFreshSnapshot
  /\ i \in 1..Len(sessions)
  /\ sessions[i].name # name
  /\ ChangesSnapshot("rename")
  /\ IF "sessions" \in snapshot.shared
     THEN sessions' = [sessions EXCEPT ![i].name = name]
     ELSE UNCHANGED sessions
  /\ UNCHANGED <<activeSessions, currentDomain, snapshot>>

\* snapshot.activeSessions[domain] = id
snapshotActiveSet(domain, id) ==
  /\ HoldsFreshSnapshot
  /\ activeSessions[domain] # id
  /\ ChangesSnapshot("setActive")
  /\ IF "activeSessions" \in snapshot.shared
     THEN activeSessions' = [activeSessions EXCEPT ![domain] = id]
     ELSE UNCHANGED activeSessions
  /\ UNCHANGED <<sessions, currentDomain, snapshot>>

\* snapshot.currentDomain = domain
snapshotDomainSet(domain) ==
  /\ HoldsFreshSnapshot
  /\ snapshot.currentDomain # domain
  /\ ChangesSnapshot("setDomain")
  /\ snapshot' = [snapshot EXCEPT !.currentDomain = domain]
  /\ UNCHANGED <<sessions, activeSessions, currentDomain>>

\* saveCurrentSession up to its await of the bridge: the name is
\* validated and the capture request is sent with the current domain.
\* Until the reply arrives other handlers run.
saveCurrentSessionAwaits(name) ==
  /\ Idle
  /\ Len(pending) < MaxPending
  /\ SendsNothing
  /\ IF ~ValidName(name)
     THEN /\ Fails("save", NoId, name, FALSE, <<>>,
                   storedSessionDefaultValue, "ValidationError")
          /\ UNCHANGED pending
     ELSE /\ pending' =
               Append(pending, Request("save", NoId, name, currentDomain))
          /\ UNCHANGED <<sessions, activeSessions, currentDomain,
                         storedSessions, storedActive, nextId, now, last>>
  /\ UNCHANGED <<exportFile, exportData, rows, cloudImportFailCount,
                 cloudImportBlocked, listeners, snapshot>>

\* the call returns and its request goes on record with it
ReturnsRequest(request, data, result) ==
  last' = [Call(request.op, request.id, request.name, FALSE, <<>>, data,
                result, Snapshot) EXCEPT !.request = request]

\* saveCurrentSession from the reply on: the new session is built from the
\* state as it is now (this.state.currentDomain and this.state.sessions
\* are read after the await), pushed, and the store is flushed
saveCurrentSessionResumes(k, response) ==
  /\ Idle
  /\ k \in 1..Len(pending)
  /\ pending[k].op = "save"
  /\ pending' = Answered(pending, k)
  /\ Sends("GET_CURRENT_SESSION", response.success)
  /\ UNCHANGED <<exportFile, exportData, rows, cloudImportFailCount,
                 cloudImportBlocked, listeners, snapshot>>
  /\ IF Failed(response.success)
     THEN /\ ReturnsRequest(pending[k], response.data, "CaptureError")
          /\ UNCHANGED <<sessions, activeSessions, currentDomain,
                         storedSessions, storedActive, nextId, now>>
     ELSE
       LET newSession ==
             NewSession(response.data, nextId,
                        validateSessionName(pending[k].name),
                        currentDomain, now,
                        MaxOrder(sessions, currentDomain))
       IN /\ nextId <= MaxIds
          /\ nextId' = nextId + 1
          /\ sessions' = Append(sessions, newSession)
          /\ activeSessions' =
               [activeSessions EXCEPT ![currentDomain] = newSession.id]
          /\ saveStorageData
          /\ ReturnsRequest(pending[k], response.data, "ok")
          /\ UNCHANGED <<currentDomain, now>>

\* the session object a waiting call holds, as an index into the store:
\* 0 once a reload has replaced the objects or the session was deleted
HeldSession(request) ==
  IF request.stale THEN 0 ELSE FindById(sessions, request.id)

\* switchToSession up to its await of the bridge
switchToSessionAwaits(sessionId) ==
  /\ Idle
  /\ Len(pending) < MaxPending
  /\ SendsNothing
  /\ IF FindById(sessions, sessionId) = 0
     THEN /\ Fails("switch", sessionId, <<>>, FALSE, <<>>,
                   storedSessionDefaultValue, "NotFoundError")
          /\ UNCHANGED pending
     ELSE /\ pending' =
               Append(pending,
                      Request("switch", sessionId, <<>>, currentDomain))
          /\ UNCHANGED <<sessions, activeSessions, currentDomain,
                         storedSessions, storedActive, nextId, now, last>>
  /\ UNCHANGED <<exportFile, exportData, rows, cloudImportFailCount,
                 cloudImportBlocked, listeners, snapshot>>

\* switchToSession from the reply on: the pointer of the domain that is
\* current now is set, lastUsed is written to the session object found
\* before the await, and the store is flushed
switchToSessionResumes(k, success) ==
  LET i == HeldSession(pending[k]) IN
  /\ Idle
  /\ k \in 1..Len(pending)
  /\ pending[k].op = "switch"
  /\ pending' = Answered(pending, k)
  /\ Sends("SWITCH_SESSION", success)
  /\ UNCHANGED <<exportFile, exportData, rows, cloudImportFailCount,
                 cloudImportBlocked, listeners, snapshot>>
  /\ IF Failed(success)
     THEN /\ ReturnsRequest(pending[k], storedSessionDefaultValue,
                            "ApplyError")
          /\ UNCHANGED <<sessions, activeSessions, currentDomain,
                         storedSessions, storedActive, nextId, now>>
     ELSE /\ activeSessions' =
               [activeSessions EXCEPT ![currentDomain] = pending[k].id]
          /\ sessions' = IF i = 0 THEN sessions
                         ELSE [sessions EXCEPT ![i].lastUsed = now]
          /\ saveStorageData
          /\ ReturnsRequest(pending[k], storedSessionDefaultValue, "ok")
          /\ UNCHANGED <<currentDomain, nextId, now>>

\* overwriteSessionWithCurrent up to its await of the bridge: the session
\* is looked up, its domain compared and the name validated
overwriteSessionWithCurrentAwaits(sessionId, name) ==
  LET i == FindById(sessions, sessionId)
      F(result) ==
        Fails("overwrite", sessionId, name, FALSE, <<>>,
              storedSessionDefaultValue, result)
  IN
  /\ Idle
  /\ Len(pending) < MaxPending
  /\ SendsNothing
  /\ IF i = 0 THEN F("NotFoundError") /\ UNCHANGED pending
     ELSE IF CrossDomain(sessions[i], currentDomain)
     THEN F("CrossDomainError") /\ UNCHANGED pending
     ELSE IF name # undefinedName /\ ~ValidName(name)
     THEN F("ValidationError") /\ UNCHANGED pending
     ELSE /\ pending' =
               Append(pending,
                      Request("overwrite", sessionId,
                              IF name # undefinedName
                              THEN validateSessionName(name)
                              ELSE sessions[i].name,
                              currentDomain))
          /\ UNCHANGED <<sessions, activeSessions, currentDomain,
                         storedSessions, storedActive, nextId, now, last>>
  /\ UNCHANGED <<exportFile, exportData, rows, cloudImportFailCount,
                 cloudImportBlocked, listeners, snapshot>>

\* overwriteSessionWithCurrent from the reply on: Object.assign on the
\* session object found before the await, the pointer of the domain that
\* is current now, and the flush
overwriteSessionWithCurrentResumes(k, response) ==
  LET i == HeldSession(pending[k]) IN
  /\ Idle
  /\ k \in 1..Len(pending)
  /\ pending[k].op = "overwrite"
  /\ pending' = Answered(pending, k)
  /\ Sends("GET_CURRENT_SESSION", response.success)
  /\ UNCHANGED <<exportFile, exportData, rows, cloudImportFailCount,
                 cloudImportBlocked, listeners, snapshot>>
  /\ IF Failed(response.success)
     THEN /\ ReturnsRequest(pending[k], response.data, "CaptureError")
          /\ UNCHANGED <<sessions, activeSessions, currentDomain,
                         storedSessions, storedActive, nextId, now>>
     ELSE /\ activeSessions' =
               [activeSessions EXCEPT ![currentDomain] = pending[k].id]
          /\ sessions' =
               IF i = 0 THEN sessions
               ELSE [sessions EXCEPT ![i] =
                       OverwrittenSession(sessions[i], response.data,
                                          pending[k].name, now)]
          /\ saveStorageData
          /\ ReturnsRequest(pending[k], response.data, "ok")
          /\ UNCHANGED <<currentDomain, nextId, now>>

\* switches and overwrites whose bridge request is in flight while the tab
\* listeners run initialize
NextInterleaved ==
  \/ Handled
  \/ Tick
  \/ \E d \in Domains : initialize(d)
  \/ \E r \in NoDataResponses : saveCurrentSession(<<"w">>, r)
  \/ \E id \in IdInputs : switchToSessionAwaits(id)
  \/ \E k \in 1..MaxPending, ok \in BOOLEAN : switchToSessionResumes(k, ok)
  \/ \E id \in IdInputs, name \in TimeOptNameInputs :
       overwriteSessionWithCurrentAwaits(id, name)
  \/ \E k \in 1..MaxPending, r \in CaptureResponses :
       overwriteSessionWithCurrentResumes(k, r)

SpecInterleaved == Init /\ [][NextInterleaved]_vars

\* saves whose capture is in flight while the tab listeners run initialize
\* and other calls start
NextAsync ==
  \/ Handled
  \/ \E d \in Domains : initialize(d)
  \/ \E name \in TimeNameInputs : saveCurrentSessionAwaits(name)
  \/ \E k \in 1..MaxPending, r \in NoDataResponses :
       saveCurrentSessionResumes(k, r)
  \/ \E id \in IdInputs : deleteSession(id)

SpecAsync == Init /\ [][NextAsync]_vars

\* chrome.tabs.onActivated fires: the listener, if registered, runs
\* initialize when the domain of the tab is another one
tabActivatedListener(newDomain) ==
  /\ "tabActivatedListener" \in listeners
  /\ initialize(newDomain)

\* chrome.tabs.onUpdated fires with status "complete"
tabUpdatedListener(newDomain) ==
  /\ "tabUpdatedListener" \in listeners
  /\ initialize(newDomain)

\* cleanup: removeListener for both listeners; the variant forgets the
\* second one
cleanup_activatedOnly(registered) == registered \ {"tabActivatedListener"}

cleanup(registered) ==
  (registered \ {"tabActivatedListener"}) \ {"tabUpdatedListener"}

\* the popup closes: beforeunload and unload fire, each runs cleanup
unload ==
  /\ ~Closed
  /\ listeners' = cleanup(cleanup(listeners))
  /\ SendsNothing
  /\ Returns("unload", NoId, <<>>, FALSE, <<>>, storedSessionDefaultValue,
             "ok")
  /\ UNCHANGED <<sessions, activeSessions, currentDomain, storedSessions,
                 storedActive, nextId, now, exportFile, exportData, rows,
                 cloudImportFailCount, cloudImportBlocked, snapshot,
                 pending>>

\* the popup is opened again: the DOMContentLoaded handler makes a new
\* controller, runs initialize for the tab's domain and registers the two
\* listeners
DOMContentLoaded(tabDomain) ==
  /\ Closed
  /\ currentDomain' = tabDomain
  /\ loadStorageData
  /\ listeners' = listeners \cup TabListeners
  /\ SendsNothing
  /\ Returns("load", NoId, <<>>, FALSE, <<>>, storedSessionDefaultValue,
             "ok")
  /\ UNCHANGED <<nextId, now, exportFile, exportData, rows,
                 cloudImportFailCount, cloudImportBlocked, snapshot,
                 pending>>

\* the popup over its life: opened, used, closed, while the tabs change
NextLifecycle ==
  \/ Handled
  \/ \E d \in Domains : tabActivatedListener(d)
  \/ \E d \in Domains : tabUpdatedListener(d)
  \/ \E name \in TimeNameInputs, r \in NoDataResponses :
       saveCurrentSession(name, r)
  \/ \E id \in IdInputs : deleteSession(id)
  \/ unload
  \/ \E d \in Domains : DOMContentLoaded(d)

SpecLifecycle == Init /\ [][NextLifecycle]_vars

\* the list of the page: the handlers that draw it and the drop of a row
RowIndexes == 1..MaxIds
NextPage ==
  \/ HandledOnPage
  \/ \E d \in Domains : initialize(d)
  \/ \E name \in TimeNameInputs, r \in NoDataResponses :
       saveCurrentSession(name, r)
  \/ \E id \in IdInputs : deleteSession(id)
  \/ \E id \in RenameIdInputs, name \in TimeRenameNameInputs,
        r \in NoDataResponses : handleOverwriteRename(id, name, r)
  \/ \E d \in RowIndexes, t \in RowIndexes : handleDrop(d, t)
  \/ \E id \in IdInputs, ok \in BOOLEAN : switchToSession(id, ok)

SpecPage == Init /\ [][NextPage]_vars

\* a caller of getState() that changes what it received, next to saves
NextSnapshot ==
  \/ Handled
  \/ getState
  \/ snapshotSessionsPush
  \/ \E i \in 1..MaxStored : snapshotSessionRename(i, <<"h">>)
  \/ \E d \in Domains, id \in Ids : snapshotActiveSet(d, id)
  \/ \E d \in Domains : snapshotDomainSet(d)
  \/ \E name \in TimeNameInputs, r \in NoDataResponses :
       saveCurrentSession(name, r)

SpecSnapshot == Init /\ [][NextSnapshot]_vars

\* the transfer codes typed and the replies of the transfer service
CodeInputs == {<<" ">>, <<"c">>}
CloudReplies ==
  {Reply(0, <<>>), Reply(429, <<>>), Reply(404, <<>>), Reply(500, <<>>),
   Reply(200, NotAnArray), Reply(200, <<>>), Reply(200, LegacyFile.json)}

\* the cloud import of the transfer modal, next to saves
NextCloud ==
  \/ Handled
  \/ Reloaded
  \/ closeTransfer
  \/ \E name \in TimeNameInputs, r \in NoDataResponses :
       saveCurrentSession(name, r)
  \/ \E code \in CodeInputs, reply \in CloudReplies :
       cloudImportClick(code, reply)
  \/ \E choice \in {"object", "legacy"} : confirmImport(ImportFile(choice))

SpecCloud == Init /\ [][NextCloud]_vars

\* the operations on a storage that an import or Clear All has written
NextStorage ==
  \/ Handled
  \/ Reloaded
  \/ \E d \in Domains : initialize(d)
  \/ \E name \in TimeNameInputs, r \in NoDataResponses :
       saveCurrentSession(name, r)
  \/ \E id \in TransferIdInputs : deleteSession(id)
  \/ \E choice \in StorageImportChoices : confirmImport(ImportFile(choice))
  \/ clearAll

SpecStorage == Init /\ [][NextStorage]_vars

\* the two flows of the overwrite-rename, next to saves
ResaveNameInputs == TimeRenameNameInputs \cup {<<"h">>}
NextResave ==
  \/ Handled
  \/ \E d \in Domains : initialize(d)
  \/ \E name \in TimeNameInputs, r \in NoDataResponses :
       saveCurrentSession(name, r)
  \/ \E id \in RenameIdInputs, name \in ResaveNameInputs,
        r \in NoDataResponses : handleOverwriteRename(id, name, r)
  \/ \E id \in RenameIdInputs, name \in ResaveNameInputs,
        r \in NoDataResponses : handleOverwriteRenameResave(id, name, r)

SpecResave == Init /\ [][NextResave]_vars

\* the storage cannot always be read
NextReadFailure ==
  \/ Handled
  \/ \E d \in Domains : initialize(d)
  \/ \E d \in Domains : initializeReadFails(d)
  \/ \E name \in TimeNameInputs, r \in NoDataResponses :
       saveCurrentSession(name, r)
  \/ \E id \in IdInputs : deleteSession(id)

SpecReadFailure == Init /\ [][NextReadFailure]_vars

NextTime ==
  \/ Handled
  \/ Tick
  \/ \E d \in Domains : initialize(d)
  \/ \E name \in TimeNameInputs, r \in CaptureResponses :
       saveCurrentSession(name, r)
  \/ \E id \in IdInputs, name \in TimeOptNameInputs, r \in CaptureResponses :
       overwriteSessionWithCurrent(id, name, r)
  \/ \E id \in IdInputs, ok \in BOOLEAN : switchToSession(id, ok)
  \/ \E ok \in BOOLEAN : createNewSession(ok)
  \/ \E id \in IdInputs, name \in TimeNameInputs, ow \in BOOLEAN :
       renameSession(id, name, ow)
  \/ \E id \in IdInputs : deleteSession(id)
  \/ \E id \in RenameIdInputs, name \in TimeRenameNameInputs,
        r \in CaptureResponses : handleOverwriteRename(id, name, r)
  \/ \E ids \in ReorderInputs : reorderSessions(ids)

SpecTime == Init /\ [][NextTime]_vars

\* ------------------------------------------------------------- well-formed
SessionFields ==
  {"id", "name", "domain", "createdAt", "lastUsed", "order", "cookies"}

TypeOK ==
  /\ \A i \in 1..Len(sessions) : DOMAIN sessions[i] = SessionFields
  /\ nextId \in 1..(MaxIds + MaxResaved + 1)
  /\ now \in 0..MaxClock

\* ------------------------------------------------------- shared vocabulary
SessionIds(ss) == {ss[i].id : i \in 1..Len(ss)}

\* the ids of the sessions of a domain
DomainIds(ss, domain) ==
  {ss[i].id : i \in {j \in 1..Len(ss) : ss[j].domain = domain}}

\* the record of the session with the given id
SessionOf(ss, id) == ss[CHOOSE i \in 1..Len(ss) : ss[i].id = id]

\* the siblings of session id (same domain, another id) whose name equals
\* newName after trimming and lower-casing
ConflictingSiblings(ss, id, newName) ==
  {ss[j].id : j \in {k \in 1..Len(ss) :
     /\ id \in SessionIds(ss)
     /\ ss[k].id # id
     /\ ss[k].domain = SessionOf(ss, id).domain
     /\ NameKey(ss[k].name) = NameKey(newName)}}

\* the store, in memory and persisted, now and when the last call started
Store == <<sessions, activeSessions, storedSessions, storedActive>>
StoreBefore ==
  <<last.pre.sessions, last.pre.activeSessions,
    last.pre.storedSessions, last.pre.storedActive>>

\* ---------------------------------------------------------------- claim C1
\* C1: renameSession(id, newName, overwrite=false), when another session of
\* the same domain has a name equal to newName after trimming and
\* lower-casing, fails with the name-conflict error and leaves sessions,
\* activeSessions and the persisted storage as they were.
C1_RenameConflictRejected ==
  (/\ last.op = "rename"
   /\ ~last.overwrite
   /\ ConflictingSiblings(last.pre.sessions, last.id, last.name) # {})
  => (/\ last.result = "NameConflictError"
      /\ Store = StoreBefore)

\* a rename to a name that differs from a sibling's name only in case and
\* blanks has just been refused for the conflict
C1_Witness ==
  /\ last.op = "rename"
  /\ ~last.overwrite
  /\ last.result = "NameConflictError"
  /\ \E c \in ConflictingSiblings(sessions, last.id, last.name) :
       /\ SessionOf(sessions, c).name # last.name
       /\ SessionOf(sessions, last.id).name # last.name
       /\ NameKey(SessionOf(sessions, last.id).name) # NameKey(last.name)

\* ---------------------------------------------------------------- claim C2
\* C2: renameSession(id, newName, overwrite=true) with a name-conflicting
\* sibling C removes C from the store, sets the target's name to newName
\* and, if activeSessions[domain] pointed at C, makes it point at id; an
\* active pointer that pointed elsewhere or was absent is unchanged.
C2_RenameOverwriteRemovesSibling ==
  (/\ last.op = "rename"
   /\ last.overwrite
   /\ ConflictingSiblings(last.pre.sessions, last.id, last.name) # {})
  => \E c \in ConflictingSiblings(last.pre.sessions, last.id, last.name) :
       LET domain == SessionOf(last.pre.sessions, last.id).domain IN
       /\ last.result = "ok"
       /\ SessionIds(sessions) = SessionIds(last.pre.sessions) \ {c}
       /\ SessionOf(sessions, last.id).name = last.name
       /\ activeSessions =
            [d \in Domains |->
               IF d = domain /\ last.pre.activeSessions[d] = c
               THEN last.id ELSE last.pre.activeSessions[d]]
       /\ storedSessions = sessions
       /\ storedActive = activeSessions

\* a rename with overwrite has just removed the sibling that was the active
\* session of the domain, and the pointer now names the renamed session
C2_Witness ==
  /\ last.op = "rename"
  /\ last.overwrite
  /\ last.result = "ok"
  /\ \E c \in ConflictingSiblings(last.pre.sessions, last.id, last.name) :
       /\ last.pre.activeSessions[SessionOf(last.pre.sessions, c).domain] = c
       /\ c \notin SessionIds(sessions)
       /\ activeSessions[SessionOf(sessions, last.id).domain] = last.id
       /\ SessionOf(sessions, last.id).name = last.name

\* ---------------------------------------------------------------- claim C3
\* C3: a successful overwriteSessionWithCurrent(id, name?) leaves the
\* target's id, order, createdAt and domain as they were, whatever the
\* captured payload carries; only name, payload and lastUsed may differ.
C3_OverwritePreservesIdentity ==
  (last.op = "overwrite" /\ last.result = "ok")
  => LET old == SessionOf(last.pre.sessions, last.id)
         new == SessionOf(sessions, last.id)
     IN /\ last.id \in SessionIds(last.pre.sessions)
        /\ last.id \in SessionIds(sessions)
        /\ DOMAIN new = SessionFields
        /\ \A f \in {"id", "order", "createdAt", "domain"} :
             new[f] = old[f]
        /\ FindById(sessions, last.id) = FindById(last.pre.sessions, last.id)
        /\ Len(sessions) = Len(last.pre.sessions)

\* an overwrite has just stored the payload that carries its own id, order,
\* createdAt and domain into a session created at an earlier time
C3_Witness ==
  /\ last.op = "overwrite"
  /\ last.result = "ok"
  /\ last.data = PayloadWithMetadata
  /\ LET t == SessionOf(sessions, last.id)
     IN /\ t.cookies = PayloadWithMetadata.cookies
        /\ t.lastUsed > t.createdAt
        /\ t.id # PayloadWithMetadata.id
        /\ t.domain = currentDomain

\* ---------------------------------------------------------------- claim C4
\* C4: reorderSessions(ids) is rejected, with every order and the persisted
\* store unchanged, whenever the set of the supplied ids differs from the
\* set of ids of the current domain's sessions or the length of the list
\* differs from their number.
C4_ReorderRejectsWrongIds ==
  (/\ last.op = "reorder"
   /\ \/ {last.ids[k] : k \in 1..Len(last.ids)} #
           DomainIds(last.pre.sessions, last.pre.currentDomain)
      \/ Len(last.ids) #
           Cardinality(DomainIds(last.pre.sessions, last.pre.currentDomain)))
  => (/\ last.result \in {"CountMismatchError", "InvalidIdsError"}
      /\ Store = StoreBefore)

\* a list of the right length that names one session of the current domain
\* twice has just been refused
C4_Witness ==
  /\ last.op = "reorder"
  /\ last.result = "InvalidIdsError"
  /\ Cardinality(DomainIds(sessions, currentDomain)) = 2
  /\ Len(last.ids) = 2
  /\ last.ids[1] = last.ids[2]
  /\ last.ids[1] \in DomainIds(sessions, currentDomain)

\* ---------------------------------------------------------------- claim C5
\* C5: a successful reorderSessions(ids) sets the order of the current
\* domain's session ids[i] to i (counted from 0), so that the domain's
\* order values are exactly 0..N-1.
C5_ReorderAssignsIndex ==
  (last.op = "reorder" /\ last.result = "ok")
  => (/\ \A k \in 1..Len(last.ids) :
           /\ last.ids[k] \in DomainIds(sessions, currentDomain)
           /\ SessionOf(sessions, last.ids[k]).order = k - 1
      /\ {SessionOf(sessions, id).order :
            id \in DomainIds(sessions, currentDomain)} =
         0..(Len(last.ids) - 1))

\* the two sessions of the current domain have just been swapped: the one
\* saved first is now second
C5_Witness ==
  /\ last.op = "reorder"
  /\ last.result = "ok"
  /\ last.ids = <<2, 1>>
  /\ SessionOf(last.pre.sessions, 1).order = 0
  /\ SessionOf(sessions, 1).order = 1
  /\ SessionOf(sessions, 2).order = 0

\* ---------------------------------------------------------------- claim C6
\* C6: in every reachable state each entry activeSessions[D] references a
\* session that exists in the store and whose domain is D.
C6_ActivePointerInOwnDomain ==
  \A d \in Domains :
    activeSessions[d] # NoId =>
      \E i \in 1..Len(sessions) :
        /\ sessions[i].id = activeSessions[d]
        /\ sessions[i].domain = d

\* ---------------------------------------------------------------- claim C7
\* C7: deleteSession(id), where id is the active session of its own domain
\* D, removes the entry activeSessions[D], whichever domain is current, and
\* leaves the entries of every other domain unchanged.
C7_DeleteClearsOwnDomainPointer ==
  (/\ last.op = "delete"
   /\ last.id \in SessionIds(last.pre.sessions)
   /\ last.pre.activeSessions[SessionOf(last.pre.sessions, last.id).domain]
        = last.id)
  => activeSessions =
       [last.pre.activeSessions EXCEPT
          ![SessionOf(last.pre.sessions, last.id).domain] = NoId]

\* ---------------------------------------------------------------- claim C8
\* C8: no two sessions of the same domain have names that are equal after
\* trimming and lower-casing; a save or rename that would create such a
\* duplicate is rejected.
C8_NamesUniquePerDomain ==
  \A i, j \in 1..Len(sessions) :
    (i # j /\ sessions[i].domain = sessions[j].domain)
    => NameKey(sessions[i].name) # NameKey(sessions[j].name)

\* ---------------------------------------------------------------- claim C9
\* C9: in every state reachable from the empty store the order values of the
\* sessions of any single domain are pairwise distinct.
C9_OrdersDistinctPerDomain ==
  \A i, j \in 1..Len(sessions) :
    (i # j /\ sessions[i].domain = sessions[j].domain)
    => sessions[i].order # sessions[j].order

\* a domain holds two sessions whose orders were swapped by a reorder, and
\* an operation other than the reorder has just changed the store
C9_Witness ==
  /\ last.op \notin {"idle", "reorder"}
  /\ last.result = "ok"
  /\ sessions # last.pre.sessions
  /\ \E i, j \in 1..Len(sessions) :
       /\ i < j
       /\ sessions[i].domain = sessions[j].domain
       /\ sessions[i].order = 1
       /\ sessions[j].order = 0

\* --------------------------------------------------------------- claim C10
\* C10: a successful saveCurrentSession(name) appends exactly one session
\* whose domain is the current domain and whose order is one greater than
\* the maximum order of the sessions already in that domain (0 if there are
\* none), makes it the active session of the current domain and leaves
\* every session that existed unchanged.
C10_SaveAppendsAtEnd ==
  (last.op = "save" /\ last.result = "ok")
  => LET before == last.pre.sessions
         n == sessions[Len(sessions)]
         orders == {before[i].order :
                      i \in {k \in 1..Len(before) :
                               before[k].domain = currentDomain}}
     IN /\ Len(sessions) = Len(before) + 1
        /\ \A i \in 1..Len(before) : sessions[i] = before[i]
        /\ n.id \notin SessionIds(before)
        /\ n.domain = currentDomain
        /\ currentDomain = last.pre.currentDomain
        /\ n.order = IF orders = {} THEN 0
                     ELSE 1 + (CHOOSE m \in orders :
                                 \A o \in orders : o <= m)
        /\ activeSessions =
             [last.pre.activeSessions EXCEPT ![currentDomain] = n.id]

\* a second session has just been saved into a domain and got order 1,
\* while the other domain is empty
C10_Witness ==
  /\ last.op = "save"
  /\ last.result = "ok"
  /\ Len(sessions) = 2
  /\ sessions[1].domain = currentDomain
  /\ sessions[2].domain = currentDomain
  /\ sessions[2].order = 1
  /\ activeSessions[currentDomain] = sessions[2].id

\* --------------------------------------------------------------- claim C11
\* C11: when saveCurrentSession fails because the name is invalid (blank
\* after trim or too long) or because the capture bridge reports failure,
\* no session is added, activeSessions is unchanged and nothing is written
\* to persistent storage.
C11_SaveFailureChangesNothing ==
  (/\ last.op = "save"
   /\ \/ trim(last.name) = <<>>
      \/ Len(trim(last.name)) > MaxNameLen
      \/ \E k \in 1..Len(bridge) : ~bridge[k].success)
  => (/\ last.result \in {"ValidationError", "CaptureError"}
      /\ Store = StoreBefore)

\* a save with a valid name has just failed on the bridge's reply while the
\* store holds a session that is active for the current domain
C11_Witness ==
  /\ last.op = "save"
  /\ last.result = "CaptureError"
  /\ trim(last.name) # <<>>
  /\ bridge = <<[action |-> "GET_CURRENT_SESSION", success |-> FALSE]>>
  /\ sessions # <<>>
  /\ activeSessions[currentDomain] # NoId

\* --------------------------------------------------------------- claim C12
\* C12: a successful switchToSession(id) marks the session active for the
\* session's own domain (activeSessions[session.domain] = id), sets that
\* session's lastUsed to now and changes no other domain's active pointer.
C12_SwitchMarksOwnDomain ==
  (last.op = "switch" /\ last.result = "ok")
  => LET session == SessionOf(sessions, last.id)
     IN /\ activeSessions =
             [last.pre.activeSessions EXCEPT ![session.domain] = last.id]
        /\ session.lastUsed = now

\* --------------------------------------------------------------- claim C13
\* C13: switchToSession(id) fails without changing activeSessions, any
\* session's lastUsed or the persisted storage when no session has that id
\* (and then no apply request is sent to the bridge) or when the bridge
\* reports that applying the session failed; the apply is requested once,
\* not again.
C13_SwitchFailureChangesNothing ==
  (/\ last.op = "switch"
   /\ \/ last.id \notin SessionIds(last.pre.sessions)
      \/ \E k \in 1..Len(bridge) : ~bridge[k].success)
  => (/\ last.result \in {"NotFoundError", "ApplyError"}
      /\ Store = StoreBefore
      /\ last.id \notin SessionIds(last.pre.sessions) => bridge = <<>>
      /\ Len(bridge) <= 1)

\* the bridge has just refused to apply a session that was last used at an
\* earlier time and is not the active one of the current domain
C13_Witness ==
  /\ last.op = "switch"
  /\ last.result = "ApplyError"
  /\ bridge = <<[action |-> "SWITCH_SESSION", success |-> FALSE]>>
  /\ last.id \in SessionIds(sessions)
  /\ SessionOf(sessions, last.id).lastUsed < now
  /\ activeSessions[currentDomain] # last.id

\* --------------------------------------------------------------- claim C14
\* C14: overwriteSessionWithCurrent(id, name?) fails, without sending a
\* capture request and without changing any session, activeSessions or the
\* persisted storage, when no session has that id or when the target
\* session's domain differs from the current tab's domain.
C14_OverwriteRejectsUnknownOrForeign ==
  (last.op = "overwrite")
  => /\ last.id \notin SessionIds(last.pre.sessions)
        => (/\ last.result = "NotFoundError"
            /\ bridge = <<>>
            /\ Store = StoreBefore)
     /\ (/\ last.id \in SessionIds(last.pre.sessions)
         /\ SessionOf(last.pre.sessions, last.id).domain
              # last.pre.currentDomain)
        => (/\ last.result = "CrossDomainError"
            /\ bridge = <<>>
            /\ Store = StoreBefore)

\* an overwrite under a valid new name of a session that belongs to the
\* other domain has just been refused
C14_Witness ==
  /\ last.op = "overwrite"
  /\ last.result = "CrossDomainError"
  /\ last.id \in SessionIds(sessions)
  /\ SessionOf(sessions, last.id).domain # currentDomain
  /\ last.name # undefinedName
  /\ trim(last.name) # <<>>
  /\ SessionOf(sessions, last.id).name # last.name
  /\ bridge = <<>>

\* --------------------------------------------------------------- claim C15
\* C15: a successful createNewSession removes activeSessions[currentDomain]
\* and leaves the sessions collection and every other domain's active
\* pointer unchanged; if the bridge reports a clear failure, activeSessions
\* is unchanged as well.
C15_CreateNewOnlyDeselects ==
  (last.op = "createNew")
  => /\ bridge # <<>>
     /\ sessions = last.pre.sessions
     /\ currentDomain = last.pre.currentDomain
     /\ IF bridge[1].success
        THEN /\ last.result = "ok"
             /\ activeSessions =
                  [d \in Domains |->
                     IF d = currentDomain THEN NoId
                     ELSE last.pre.activeSessions[d]]
        ELSE /\ last.result = "ClearError"
             /\ activeSessions = last.pre.activeSessions

\* the current domain's pointer has just been removed while the other
\* domain keeps its own and both sessions are still stored
C15_Witness ==
  /\ last.op = "createNew"
  /\ last.result = "ok"
  /\ last.pre.activeSessions[currentDomain] # NoId
  /\ activeSessions[currentDomain] = NoId
  /\ \E d \in Domains \ {currentDomain} : activeSessions[d] # NoId
  /\ Len(sessions) = 2

\* --------------------------------------------------------------- claim C16
\* C16: deleteSession is idempotent: deleting an id that is not in the
\* store raises no error and leaves sessions and activeSessions unchanged
\* (so a second deleteSession(id) right after the first changes nothing).
C16_DeleteOfAbsentIdIsNoOp ==
  (/\ last.op = "delete"
   /\ last.id \notin SessionIds(last.pre.sessions))
  => (/\ last.result = "ok"
      /\ sessions = last.pre.sessions
      /\ activeSessions = last.pre.activeSessions)

\* ------------------------------------------------- overwrite-rename flow
\* the sessions of the current domain, other than id, whose name equals
\* newName after trimming and lower-casing
CurrentDomainConflicts(ss, currentDom, id, newName) ==
  {ss[k].id : k \in {j \in 1..Len(ss) :
     /\ ss[j].id # id
     /\ ss[j].domain = currentDom
     /\ NameKey(ss[j].name) = NameKey(newName)}}

\* the sequence ss with the sessions of id c left out
Lacking(ss, c) ==
  LET other(s) == s.id # c IN SelectSeq(ss, other)

\* --------------------------------------------------------------- claim C17
\* C17: the popup's overwrite-rename flow (delete the name-conflicting
\* sibling of the current domain, then overwriteSessionWithCurrent on the
\* session being renamed), when both steps succeed, ends with the sibling
\* absent and with the renamed session keeping its id and order, carrying
\* the new name and being the active session of the current domain.
C17_FlowReplacesSiblingInPlace ==
  (/\ last.op = "overwriteRename"
   /\ last.result = "ok"
   /\ CurrentDomainConflicts(last.pre.sessions, last.pre.currentDomain,
                             last.id, last.name) # {})
  => \E c \in CurrentDomainConflicts(last.pre.sessions,
                                     last.pre.currentDomain,
                                     last.id, last.name) :
       /\ SessionIds(sessions) = SessionIds(last.pre.sessions) \ {c}
       /\ last.id \in SessionIds(sessions)
       /\ FindById(sessions, last.id) =
            FindById(Lacking(last.pre.sessions, c), last.id)
       /\ SessionOf(sessions, last.id).order =
            SessionOf(last.pre.sessions, last.id).order
       /\ SessionOf(sessions, last.id).name = last.name
       /\ activeSessions[currentDomain] = last.id

\* the flow has just renamed a session to a name that a sibling, until then
\* the active session of the domain, carried in another spelling
C17_Witness ==
  /\ last.op = "overwriteRename"
  /\ last.result = "ok"
  /\ \E c \in CurrentDomainConflicts(last.pre.sessions,
                                     last.pre.currentDomain,
                                     last.id, last.name) :
       /\ SessionOf(last.pre.sessions, c).name # last.name
       /\ last.pre.activeSessions[currentDomain] = c
       /\ c \notin SessionIds(sessions)
  /\ NameKey(SessionOf(last.pre.sessions, last.id).name) # NameKey(last.name)
  /\ SessionOf(sessions, last.id).name = last.name
  /\ activeSessions[currentDomain] = last.id

\* --------------------------------------------------------------- claim C18
\* C18: in the overwrite-rename flow, if the overwrite step fails after the
\* delete step succeeded (for instance because the capture bridge reports
\* failure), the in-memory and the persisted store lack the conflicting
\* session while the target session is as it was (name, payload, lastUsed);
\* the deletion is not rolled back.
C18_FlowFailureKeepsDeletion ==
  (/\ last.op = "overwriteRename"
   /\ last.result \notin {"ok", "cancelled"}
   /\ CurrentDomainConflicts(last.pre.sessions, last.pre.currentDomain,
                             last.id, last.name) # {})
  => \E c \in CurrentDomainConflicts(last.pre.sessions,
                                     last.pre.currentDomain,
                                     last.id, last.name) :
       /\ sessions = Lacking(last.pre.sessions, c)
       /\ storedSessions = sessions
       /\ storedActive = activeSessions
       /\ last.id \in SessionIds(last.pre.sessions)
          => SessionOf(sessions, last.id) =
               SessionOf(last.pre.sessions, last.id)

\* the capture has just failed in the flow: the sibling is gone from memory
\* and storage, and the session being renamed still has its old name
C18_Witness ==
  /\ last.op = "overwriteRename"
  /\ last.result = "CaptureError"
  /\ bridge = <<[action |-> "GET_CURRENT_SESSION", success |-> FALSE]>>
  /\ Len(last.pre.sessions) = 2
  /\ Len(storedSessions) = 1
  /\ sessions = storedSessions
  /\ sessions[1].id = last.id
  /\ NameKey(sessions[1].name) # NameKey(last.name)

\* --------------------------------------------------------------- claim C19
\* C19: mergeSessions(imported), for a non-empty imported array, writes a
\* persisted list made of every existing session whose domain does not
\* occur among the imported sessions' domains, unchanged, followed by all
\* imported sessions; every existing session whose domain does occur among
\* them is dropped.
C19_MergeReplacesImportedDomains ==
  (/\ last.op = "import"
   /\ last.result = "ok"
   /\ isArray(last.pre.storedSessions)
   /\ Len(last.data.json) > 0)
  => LET imported == JSONparse(last.data.json)
         domains == {imported[i].domain : i \in 1..Len(imported)}
         absent(s) == s.domain \notin domains
     IN storedSessions =
          SelectSeq(last.pre.storedSessions, absent) \o imported

\* --------------------------------------------------------------- claim C20
\* C20: exporting all sessions of a store and importing the exported array
\* into an empty store yields a store whose persisted sessions equal the
\* exported sessions (same records, same field values), for every store
\* content.
C20_ExportImportRoundTrip ==
  (/\ last.op = "import"
   /\ last.result = "ok"
   /\ exportFile # NoFile
   /\ exportFile.name = <<"BitXSessions", "AllSessions">>
   /\ last.data = exportFile
   /\ last.pre.storedSessions = <<>>)
  => storedSessions = exportData

\* the file of an export of two sessions, one of each domain, has just been
\* imported into the store after every session had been deleted from it
C20_Witness ==
  /\ last.op = "import"
  /\ last.result = "ok"
  /\ last.data = exportFile
  /\ exportFile.name = <<"BitXSessions", "AllSessions">>
  /\ last.pre.storedSessions = <<>>
  /\ Len(exportData) = 2
  /\ exportData[1].domain # exportData[2].domain
  /\ Len(storedSessions) = 2
  /\ sessions = <<>>

\* --------------------------------------------------------------- claim C21
\* C21: after every public operation (save, switch, create-new, rename,
\* overwrite, delete, reorder) has completed, with success or with an
\* error, the persisted sessions and active_sessions equal the sessions
\* and activeSessions in memory.
PublicOperations ==
  {"save", "switch", "createNew", "rename", "overwrite", "delete", "reorder"}

C21_StorageEqualsMemoryAfterOperation ==
  last.op \in PublicOperations
  => (/\ storedSessions = sessions
      /\ storedActive = activeSessions)

\* --------------------------------------------------------------- claim C22
\* C22: initialization gives an order to every loaded session that lacks
\* one, leaves the order of the sessions that have one as it was, writes
\* the result to storage if and only if a session was changed, and leaves
\* the orders of each domain pairwise distinct, also in a domain that
\* mixes sessions with and without an order.
C22_MigrationAssignsDistinctOrders ==
  last.op \in {"initialize", "reload"}
  => LET loaded == ArrayOrEmpty(last.pre.storedSessions)
         changed == \E i \in 1..Len(loaded) : loaded[i].order = undefined
     IN /\ Len(sessions) = Len(loaded)
        /\ \A i \in 1..Len(sessions) :
             /\ sessions[i].order # undefined
             /\ loaded[i].order # undefined => sessions[i] = loaded[i]
             /\ sessions[i] = [loaded[i] EXCEPT !.order = sessions[i].order]
        /\ storedSessions =
             (IF changed THEN sessions ELSE last.pre.storedSessions)
        /\ \A i, j \in 1..Len(sessions) :
             (i # j /\ sessions[i].domain = sessions[j].domain)
             => sessions[i].order # sessions[j].order

\* --------------------------------------------------------------- claim C23
\* C23: in the cloud import, each 404 reply adds one to the failure
\* counter; when the counter reaches MAX_IMPORT_FAIL the import is
\* blocked, a 429 reply blocks it at once, a click while it is blocked
\* sends no request, and neither reply writes to the session store.
C23_CloudImportLockout ==
  last.op = "cloudImport"
  => (/\ last.data.status = 404 /\ bridge # <<>>
        => (/\ cloudImportFailCount = last.pre.cloudImportFailCount + 1
            /\ cloudImportFailCount = MAX_IMPORT_FAIL => cloudImportBlocked
            /\ Store = StoreBefore)
      /\ last.data.status = 429 /\ bridge # <<>>
        => (cloudImportBlocked /\ Store = StoreBefore)
      /\ last.pre.cloudImportBlocked
        => (/\ bridge = <<>>
            /\ cloudImportBlocked
            /\ cloudImportFailCount = last.pre.cloudImportFailCount
            /\ Store = StoreBefore))

\* a click on the import button after the fifth 404 reply
C23_Witness ==
  /\ last.op = "cloudImport"
  /\ last.pre.cloudImportBlocked
  /\ last.pre.cloudImportFailCount = MAX_IMPORT_FAIL
  /\ last.name = <<"c">>
  /\ last.result = "blocked"
  /\ bridge = <<>>

\* --------------------------------------------------------------- claim C24
\* C24: getState() returns a copy that is isolated from the store: no
\* change the caller makes to the returned object (a push to its sessions
\* array, an edit of an element of it, a key set in its activeSessions
\* map) alters what a later getState() or getSession() returns.
C24_GetStateIsolated ==
  last.op = "changeSnapshot"
  => (/\ sessions = last.pre.sessions
      /\ activeSessions = last.pre.activeSessions
      /\ currentDomain = last.pre.currentDomain)

\* --------------------------------------------------------------- claim C25
\* C25: after a drop has been handled, whether reorderSessions accepted
\* or rejected the ids, the rows are displayed in the order of the current
\* domain's sessions sorted by their stored order.
C25_RowsFollowStoredOrder ==
  last.op = "reorder"
  => RowIds(rows) = RowIds(render(sessions, activeSessions, currentDomain))

\* --------------------------------------------------------------- claim C26
\* C26: a successful renameSession without a name conflict changes only
\* the name of the target session: its id, domain, order, createdAt,
\* lastUsed and payload, all other sessions and activeSessions are as
\* they were.
C26_RenameChangesOnlyName ==
  (/\ last.op = "rename"
   /\ last.result = "ok"
   /\ ConflictingSiblings(last.pre.sessions, last.id, last.name) = {})
  => (/\ Len(sessions) = Len(last.pre.sessions)
      /\ \A k \in 1..Len(sessions) :
           IF last.pre.sessions[k].id = last.id
           THEN sessions[k] =
                  [last.pre.sessions[k] EXCEPT !.name = sessions[k].name]
           ELSE sessions[k] = last.pre.sessions[k]
      /\ activeSessions = last.pre.activeSessions)

\* while a session is active, a session with a sibling in its domain has
\* been given another name, one that no sibling has
C26_Witness ==
  /\ last.op = "rename"
  /\ last.result = "ok"
  /\ ConflictingSiblings(last.pre.sessions, last.id, last.name) = {}
  /\ Len(sessions) = 2
  /\ sessions[1].domain = sessions[2].domain
  /\ SessionOf(sessions, last.id).name
       # SessionOf(last.pre.sessions, last.id).name
  /\ \E d \in Domains : activeSessions[d] # NoId

\* --------------------------------------------------------------- claim C27
\* C27: the tab-activated and the tab-updated listener registered at popup
\* load are both removed when unload (or beforeunload) fires, so that once
\* the popup is torn down no tab event runs initialize again.
C27_ListenersRemovedAtUnload ==
  [][/\ last'.op = "unload" => listeners' = {}
     /\ Closed => last'.op # "initialize"]_vars

\* the popup has been closed with a session in the store, and no listener
\* is left registered
C27_Witness ==
  /\ Closed
  /\ listeners = {}
  /\ last.pre.sessions # <<>>

\* --------------------------------------------------------------- claim C28
\* C28: session ids are globally unique: in every state reached by save,
\* overwrite, rename, delete, reorder and import-merge, no two sessions of
\* the store, in memory or persisted, of the same or of different domains,
\* have the same id.
DistinctIds(ss) ==
  \A i, j \in 1..Len(ss) : i # j => ss[i].id # ss[j].id

C28_IdsGloballyUnique ==
  /\ DistinctIds(sessions)
  /\ DistinctIds(ArrayOrEmpty(storedSessions))

\* --------------------------------------------------------------- claim C30
\* C30: when a tab change runs initialize while a saveCurrentSession
\* awaits the reply of its capture request, the session that is stored in
\* the end has the domain that was sent in the request: no session
\* carries a payload captured for one domain under another domain's name.
C30_SavedUnderRequestedDomain ==
  (/\ last.op = "save"
   /\ last.result = "ok"
   /\ last.request # NoRequest)
  => sessions[Len(sessions)].domain = last.request.domain

\* --------------------------------------------------------------- claim C31
\* C31: no update is lost to interleaving: when switchToSession(id) or
\* overwriteSessionWithCurrent(id) completes successfully although an
\* initialize reloaded the storage during its bridge await, the session
\* with that id, in memory and in storage, carries the effect of the
\* operation (the new lastUsed and, for an overwrite, payload and name).
CarriesEffect(ss) ==
  \E i \in 1..Len(ss) :
    /\ ss[i].id = last.id
    /\ ss[i].lastUsed = now
    /\ last.op = "overwrite"
       => (/\ ss[i].name = last.request.name
           /\ ss[i].cookies = last.data.cookies)

C31_NoLostUpdate ==
  (/\ last.op \in {"switch", "overwrite"}
   /\ last.result = "ok"
   /\ last.request # NoRequest
   /\ last.request.stale)
  => (CarriesEffect(sessions) /\ CarriesEffect(ArrayOrEmpty(storedSessions)))

\* --------------------------------------------------------------- claim C32
\* C32: two saveCurrentSession calls for the same domain whose executions
\* overlap both end up in the store, in memory and in storage, and receive
\* different order values.  The call that completes second met, when its
\* reply arrived, a session of its domain that was not in the store when
\* it started: that session stays, the new one is added after it, and
\* their orders differ.
OverlappingSaved ==
  {j \in 1..Len(last.pre.sessions) :
     /\ last.pre.sessions[j].id \notin last.request.pre
     /\ last.pre.sessions[j].domain = last.request.domain}

OverlappingSavesCompleted ==
  /\ last.op = "save"
  /\ last.result = "ok"
  /\ last.request # NoRequest
  /\ currentDomain = last.request.domain
  /\ OverlappingSaved # {}

C32_OverlappingSavesBothStored ==
  OverlappingSavesCompleted
  => (/\ Len(sessions) = Len(last.pre.sessions) + 1
      /\ SubSeq(sessions, 1, Len(last.pre.sessions)) = last.pre.sessions
      /\ sessions[Len(sessions)].domain = last.request.domain
      /\ \A j \in OverlappingSaved :
           sessions[Len(sessions)].order # sessions[j].order
      /\ storedSessions = sessions)

\* two saves of one domain were in flight together and both have completed,
\* with no reload in between
C32_Witness ==
  /\ OverlappingSavesCompleted
  /\ ~last.request.stale
  /\ last.request.pre = {}

\* --------------------------------------------------------------- claim C33
\* C33: after an import merge or a Clear All followed by the
\* re-initialization of the popup, every entry of the persisted
\* active_sessions map references a session of the persisted sessions list.
C33_NoDanglingActivePointer ==
  last.op = "reload"
  => \A d \in Domains :
       storedActive[d] # NoId
       => storedActive[d] \in SessionIds(ArrayOrEmpty(storedSessions))

\* --------------------------------------------------------------- claim C34
\* C34: a failure to read or migrate the storage during initialize never
\* loses persisted sessions: a saveCurrentSession that completes
\* successfully afterwards (it starts with the store in memory emptied
\* while the storage holds sessions) writes a list that still contains
\* every session that was persisted before the failed load.
SavedAfterFailedLoad ==
  /\ last.op = "save"
  /\ last.result = "ok"
  /\ last.pre.sessions = <<>>
  /\ isArray(last.pre.storedSessions)
  /\ last.pre.storedSessions # <<>>

C34_FailedLoadLosesNothing ==
  SavedAfterFailedLoad
  => SessionIds(last.pre.storedSessions)
       \subseteq SessionIds(ArrayOrEmpty(storedSessions))

\* --------------------------------------------------------------- claim C35
\* C35: a successful reorderSessions changes nothing but the order field of
\* sessions of the current domain: the sessions are the same ones, each
\* with its id, name, domain, createdAt, lastUsed and payload; the sessions
\* of the other domains keep their order; activeSessions is unchanged.
C35_ReorderChangesOnlyOrder ==
  (last.op = "reorder" /\ last.result = "ok")
  => (/\ Len(sessions) = Len(last.pre.sessions)
      /\ \A i \in 1..Len(sessions) :
           /\ [sessions[i] EXCEPT !.order = last.pre.sessions[i].order]
                = last.pre.sessions[i]
           /\ sessions[i].domain # currentDomain
              => sessions[i] = last.pre.sessions[i]
      /\ activeSessions = last.pre.activeSessions
      /\ currentDomain = last.pre.currentDomain)

\* a reorder of the two sessions of the current domain has exchanged
\* their orders while one of them is active
C35_Witness ==
  /\ last.op = "reorder"
  /\ last.result = "ok"
  /\ Len(last.ids) = 2
  /\ sessions # last.pre.sessions
  /\ activeSessions[currentDomain] # NoId

\* --------------------------------------------------------------- claim C36
\* C36: whenever the session list is drawn (after an operation succeeded),
\* its rows are exactly the sessions of the current domain, in ascending
\* order of their order field, and the row marked active is exactly the
\* one whose id is activeSessions[currentDomain]; a session that
\* saveCurrentSession has just created is the last row and is marked
\* active.
DrawnRight(list, ss, active, domain) ==
  /\ Len(list) = Len(DomainSessions(ss, domain))
  /\ {list[k].id : k \in 1..Len(list)} = DomainIds(ss, domain)
  /\ \A k \in 1..Len(list), l \in 1..Len(list) :
       k < l => SessionOf(ss, list[k].id).order
                  <= SessionOf(ss, list[l].id).order
  /\ \A k \in 1..Len(list) :
       list[k].isActive <=> list[k].id = active[domain]

C36_ListDrawnRight ==
  [][(~Idle /\ Idle' /\ last.result = "ok" /\ last.op # "reorder")
     => (/\ DrawnRight(rows', sessions', activeSessions', currentDomain')
         /\ last.op = "save"
            => (/\ rows'[Len(rows')].id = sessions'[Len(sessions')].id
                /\ rows'[Len(rows')].isActive))]_vars

\* the list shows two rows as the store has them, and the last one is the
\* active one
C36_Witness ==
  /\ Idle
  /\ Len(rows) = 2
  /\ rows = render(sessions, activeSessions, currentDomain)
  /\ rows[2].id = sessions[Len(sessions)].id
  /\ rows[2].isActive
  /\ ~rows[1].isActive

\* --------------------------------------------------------------- claim C37
\* C37: importing is idempotent on its own export: merging into a store
\* the array obtained by exporting that same store (scope all or current)
\* leaves the set of persisted session records unchanged, and merging the
\* same non-empty array a second time gives what merging it once gave.
Records(ss) == {ss[i] : i \in 1..Len(ss)}

ImportedOwnExport ==
  /\ last.data = exportFile
  /\ exportData \in
       {ArrayOrEmpty(last.pre.storedSessions),
        DomainSessions(ArrayOrEmpty(last.pre.storedSessions), currentDomain)}

C37_ImportIdempotent ==
  (/\ last.op = "import"
   /\ last.result = "ok"
   /\ Len(JSONparse(last.data.json)) > 0)
  => (/\ mergeSessions(storedSessions, JSONparse(last.data.json))
           = storedSessions
      /\ ImportedOwnExport
         => Records(storedSessions)
              = Records(ArrayOrEmpty(last.pre.storedSessions)))

\* --------------------------------------------------------------- claim C38
\* C38: the lockout of the cloud import lasts until the transfer modal is
\* closed: a blocked import stays blocked whatever is clicked, only
\* closeTransfer (clicked, or called by an import that succeeded) sets the
\* failure counter back to 0 and unblocks, and a failure other than a 404
\* reply (429, another status, a network or parse error, a blank code)
\* leaves the failure counter as it is.
ClosesTransfer(call) ==
  \/ call.op = "closeTransfer"
  \/ call.op \in {"import", "cloudImport"} /\ call.result = "ok"

C38_LockoutUntilClosed ==
  [][/\ (cloudImportBlocked /\ ~cloudImportBlocked')
        => (ClosesTransfer(last') /\ cloudImportFailCount' = 0)
     /\ cloudImportFailCount' < cloudImportFailCount
        => (ClosesTransfer(last') /\ cloudImportFailCount' = 0)
     /\ (cloudImportBlocked /\ last'.op = "cloudImport")
        => (cloudImportBlocked' /\ last'.result = "blocked")
     /\ (last'.op = "cloudImport" /\ last'.result \notin {"NotFound", "ok"})
        => cloudImportFailCount' = cloudImportFailCount]_vars

\* the import was blocked after MAX_IMPORT_FAIL 404 replies and the modal
\* has been closed
C38_Witness ==
  /\ last.op = "closeTransfer"
  /\ last.pre.cloudImportBlocked
  /\ last.pre.cloudImportFailCount = MAX_IMPORT_FAIL
  /\ ~cloudImportBlocked
  /\ cloudImportFailCount = 0

\* --------------------------------------------------------------- claim C39
\* C39: in the earlier overwrite-rename flow (delete the conflicting
\* sibling, delete the renamed session, save the tab again) the resulting
\* session has an id no session had before and an order greater than that
\* of every remaining session of the domain, so it stands last in the
\* list; the in-place flow keeps the id and the order of the renamed
\* session.
C39_ResaveMovesToEnd ==
  /\ (/\ last.op = "resaveRename"
      /\ last.result = "ok"
      /\ last.id \in SessionIds(last.pre.sessions))
     => (/\ sessions[Len(sessions)].id \notin SessionIds(last.pre.sessions)
         /\ sessions[Len(sessions)].name = validateSessionName(last.name)
         /\ \A i \in 1..(Len(sessions) - 1) :
              sessions[i].domain = sessions[Len(sessions)].domain
              => sessions[i].order < sessions[Len(sessions)].order)
  /\ (last.op = "overwriteRename" /\ last.result = "ok")
     => (/\ last.id \in SessionIds(sessions)
         /\ SessionOf(sessions, last.id).order
              = SessionOf(last.pre.sessions, last.id).order
         /\ SessionOf(sessions, last.id).name
              = validateSessionName(last.name))

\* the first of two sessions of a domain has been renamed by the earlier
\* flow: the other session remains and the new one stands after it
C39_Witness ==
  /\ last.op = "resaveRename"
  /\ last.result = "ok"
  /\ Len(last.pre.sessions) = 2
  /\ last.pre.sessions[1].id = last.id
  /\ Len(sessions) = 2
  /\ sessions[1].domain = sessions[2].domain
  /\ sessions[1].order > SessionOf(last.pre.sessions, last.id).order
====
